---- MODULE Spec2Model ----
(***************************************************************************)
(* Model of the DexScreener market-data service                            *)
(* (src/services/dexscreener-service.ts): the fixed-window RateLimiter,    *)
(* the request queue and its drain loop, the subscription registry, the    *)
(* snapshot cache and the periodic update scheduler; and of the page       *)
(* (src/app/page.tsx): the position accounting (calculatePositionPnL), the *)
(* tracked tokens (addToken), the trades (handleTrade) and the price       *)
(* updates (handlePriceUpdate).                                            *)
(*                                                                         *)
(* Time is the value of Date.now() in abstract units.  The JavaScript      *)
(* event loop is modelled by one action per synchronous run of code: a     *)
(* handler runs from its call to its first suspension (a timer or a        *)
(* network fetch), and each resumption runs to the next suspension.        *)
(***************************************************************************)
EXTENDS Integers, Sequences, FiniteSets, TLC

(***************************************************************************)
(* Bounds of the model.  limit, resetInterval, UPDATE_INTERVAL and         *)
(* BATCH_SIZE are the program's 300 requests, 60000 ms, 3000 ms and 10     *)
(* addresses scaled down to a few units, so that window boundaries,        *)
(* exhausted windows and several batches are reached.                      *)
(***************************************************************************)
limit == 2
resetInterval == 2
UPDATE_INTERVAL == 2
BATCH_SIZE == 2
StartTime == 2       \* Date.now() when the module is loaded
Horizon == 3         \* SpecRL runs until StartTime + Horizon
NCallers == 2        \* SpecRL: concurrent callers of the limiter
QueueHorizon == 3    \* SpecQueue runs until StartTime + QueueHorizon
MaxTasks == 3        \* SpecQueue: tasks ever enqueued
MaxDirect == 1       \* SpecQueue: fetchTokenData calls made outside the queue
RegHorizon == 2      \* Spec runs until StartTime + RegHorizon
MaxRegTasks == 2     \* Spec: tasks ever enqueued
MaxDrains == 2       \* activations of processQueue the model has room for
SchedHorizon == 3    \* SpecSched runs until StartTime + SchedHorizon
MaxSchedTasks == 4   \* SpecSched: tasks ever enqueued
MaxTrades == 3       \* SpecPnL: the longest trade list
MaxCalls == 2        \* SpecPnL: calls of calculatePositionPnL on one trade list
LiveHorizon == 1     \* SpecQueueLive: enqueues happen until StartTime + LiveHorizon
MAX_TOKENS == 2      \* tokens the page tracks at most (6 in the source)
MaxAdds == 3         \* SpecPage: calls of addToken that reach the fetch
PageHorizon == 2     \* SpecPage runs until StartTime + PageHorizon
MaxPageTrades == 2   \* SpecCards: trades recorded
MaxCardTrades == 5   \* SpecTrade: trades recorded
MaxWaits == 2        \* SpecRLLive: sleeps counted for one call of the limiter

MaxTime == StartTime + Horizon
Times == StartTime..MaxTime
Callers == 1..NCallers
DrainIds == 1..MaxDrains

\* Token addresses are strings over a small alphabet, kept as sequences of
\* characters so that String.toLowerCase is computed character by character.
Chars == {"A", "a", "b"}
RawAddrs == {<<c>> : c \in Chars}
Handles == {"h1", "h2"}
\* Callbacks that may throw when they are invoked.
MayThrow == {"h2"}

VARIABLES
    now,               \* Date.now()
    rateLimiter,       \* RateLimiter instance: [requests, lastReset]
    opLog,             \* history: opLog[t] = operations recorded by the limiter at time t
    callers,           \* concurrent callers of waitForAvailability: [pc, wakeAt]
    subscribers,       \* Map address -> Set of callbacks, both in insertion order
    tokenData,         \* Map address -> pair (the snapshot cache)
    lastUpdateTime,    \* Map address -> timestamp
    requestQueue,      \* Array of queued tasks
    isProcessingQueue, \* the drain flag
    drains,            \* activations of processQueue: [pc, task, wakeAt, permits, own]
    direct,            \* a fetchTokenData call made outside the queue (addToken)
    directCalls,       \* history: the number of such calls made so far
    lastTick,          \* time of the last setInterval callback
    nextId,            \* history: sequence number of the next task enqueued
    invokedLog,        \* history: ids of the tasks invoked by a drain, in order
    returned,          \* the function returned by the latest subscribe call
    ev,                \* history: the operation that led to this state
    page               \* TradingSimulator: the state of the page (see SpecPnL, SpecPage)

svcVars == <<subscribers, tokenData, lastUpdateTime, requestQueue, isProcessingQueue,
             drains, direct, directCalls, lastTick, nextId, invokedLog, returned,
             ev, page>>
vars == <<now, rateLimiter, opLog, callers, subscribers, tokenData, lastUpdateTime,
          requestQueue, isProcessingQueue, drains, direct, directCalls, lastTick,
          nextId, invokedLog, returned, ev, page>>

(***************************************************************************)
(* RateLimiter.waitForAvailability, from its call to its first await: the  *)
(* window reset, then either the grant (requests++) or the computation of  *)
(* the time to sleep before the recursive retry.                           *)
(***************************************************************************)
waitForAvailability_noReset(rl, t) ==
    IF rl.requests >= limit
      THEN [rl |-> rl, granted |-> FALSE,
            waitTime |-> resetInterval - (t - rl.lastReset)]
      ELSE [rl |-> [rl EXCEPT !.requests = @ + 1], granted |-> TRUE,
            waitTime |-> 0]

waitForAvailability_earlyReset(rl, t) ==
    LET r1 == IF t - rl.lastReset >= resetInterval - 1
                 THEN [requests |-> 0, lastReset |-> t]
                 ELSE rl
    IN  IF r1.requests >= limit
          THEN [rl |-> r1, granted |-> FALSE,
                waitTime |-> resetInterval - (t - r1.lastReset)]
          ELSE [rl |-> [r1 EXCEPT !.requests = @ + 1], granted |-> TRUE,
                waitTime |-> 0]

waitForAvailability_offByOne(rl, t) ==
    LET r1 == IF t - rl.lastReset >= resetInterval
                 THEN [requests |-> 0, lastReset |-> t]
                 ELSE rl
    IN  IF r1.requests > limit
          THEN [rl |-> r1, granted |-> FALSE,
                waitTime |-> resetInterval - (t - r1.lastReset)]
          ELSE [rl |-> [r1 EXCEPT !.requests = @ + 1], granted |-> TRUE,
                waitTime |-> 0]

waitForAvailability(rl, t) ==
    LET r1 == IF t - rl.lastReset >= resetInterval
                 THEN [requests |-> 0, lastReset |-> t]
                 ELSE rl
    IN  IF r1.requests >= limit
          THEN [rl |-> r1, granted |-> FALSE,
                waitTime |-> resetInterval - (t - r1.lastReset)]
          ELSE [rl |-> [r1 EXCEPT !.requests = @ + 1], granted |-> TRUE,
                waitTime |-> 0]

NewRateLimiter == [requests |-> 0, lastReset |-> StartTime]

(***************************************************************************)
(* Data: strings, Maps and Sets in insertion order, tasks, responses.      *)
(***************************************************************************)
\* String.prototype.toLowerCase on the alphabet Chars.
lowerChar(c) == IF c = "A" THEN "a" ELSE c
toLowerCase_identity(s) == s
toLowerCase(s) == [i \in 1..Len(s) |-> lowerChar(s[i])]


SeqToSet(s) == {s[i] : i \in 1..Len(s)}

\* Map<string, Set<callback>>: a sequence of entries [addr, cbs] in insertion
\* order; cbs is the Set of callbacks, also in insertion order.
Keys(m) == [i \in 1..Len(m) |-> m[i].addr]
Has(m, k) == \E i \in 1..Len(m) : m[i].addr = k
IndexOf(m, k) == CHOOSE i \in 1..Len(m) : m[i].addr = k
Get(m, k) == IF Has(m, k) THEN m[IndexOf(m, k)].cbs ELSE <<>>
Delete(m, k) == SelectSeq(m, LAMBDA e : e.addr # k)
SetAdd(s, x) == IF x \in SeqToSet(s) THEN s ELSE Append(s, x)
SetDelete(s, x) == SelectSeq(s, LAMBDA y : y # x)

\* Map<string, V> whose order is never read: a function on the keys present.
Put(f, k, v) == [x \in DOMAIN f \cup {k} |-> IF x = k THEN v ELSE f[x]]
Remove(f, k) == [x \in DOMAIN f \ {k} |-> f[x]]

\* A pair of the API's response: the base token's address as the API
\* spells it, and liquidity: <<>> when the pair has no liquidity.usd, else
\* <<usd>>.
Pair(a, l) == [address |-> a, liq |-> l]
PairOf(a) == Pair(a, <<1>>)
\* (pair.liquidity?.usd || 0), lines 160 and 206-207.
liquidityUsd(pair) == IF pair.liq = <<>> THEN 0 ELSE pair.liq[1]
\* The responses the service specifications draw from.  ok = FALSE: the
\* fetch rejected or the status was not OK; otherwise pairs is data.pairs
\* (an absent pairs and an empty one are handled alike).
Responses ==
    {[ok |-> FALSE, pairs |-> <<>>]} \cup
    {[ok |-> TRUE, pairs |-> p] :
        p \in {<<>>, <<PairOf(<<"A">>)>>, <<PairOf(<<"b">>)>>,
               <<PairOf(<<"A">>), PairOf(<<"b">>)>>}}

NoPair == [address |-> <<>>, liq |-> <<>>]
NoTask == [id |-> 0, kind |-> "none", addr |-> <<>>, cb |-> "", addresses |-> <<>>]
SingleTask(a, h) == [id |-> 0, kind |-> "single", addr |-> a, cb |-> h, addresses |-> <<>>]
BatchTask(as) == [id |-> 0, kind |-> "batch", addr |-> <<>>, cb |-> "", addresses |-> as]

Idle == [pc |-> "idle", task |-> NoTask, wakeAt |-> 0, permits |-> 0, own |-> 0]
NoFn == [addr |-> <<>>, cb |-> ""]
\* ev names the operation that led to the state; threw: the task of a
\* taskResponse rejected; evicted: an unsubscribe deleted a cached snapshot;
\* afterSub: an unsubscribe directly followed the subscribe of the same
\* address and callback; calls: the callbacks the operation invoked, in
\* order, each with the address it is registered for and the pair passed;
\* partial: the response of a batch task had a pair for some address of the
\* batch and none for another; failed: the network call of a task rejected
\* or its status was not OK.
NoEv == [op |-> "init", threw |-> FALSE, evicted |-> FALSE, afterSub |-> FALSE,
         calls |-> <<>>, partial |-> FALSE, failed |-> FALSE]
Ev(op) == [NoEv EXCEPT !.op = op]
\* The page before any position exists.
NoPage == [trades |-> <<>>, currentPrice |-> [n |-> 0, d |-> 1], pnl |-> <<>>]

(***************************************************************************)
(* The request queue.  The operators below work on a record Q of the       *)
(* fields requestQueue, isProcessingQueue, rateLimiter, drains, nextId and *)
(* return it updated, so that one handler can call them several times.     *)
(***************************************************************************)
\* processQueue line 129: the call of waitForAvailability for the task the
\* drain d has shifted.
drainAcquire(Q, d, t) ==
    LET w == waitForAvailability(Q.rateLimiter, t)
        cur == Q.drains[d]
    IN  [Q EXCEPT !.rateLimiter = w.rl,
                  !.drains[d] =
                      IF w.granted
                        THEN [cur EXCEPT !.pc = "ready", !.wakeAt = 0, !.permits = @ + 1]
                        ELSE [cur EXCEPT !.pc = "limiterSleep",
                                         !.wakeAt = t + w.waitTime]]

\* processQueue lines 126-137: the head of the while loop, run by drain d.
drainLoop_keepsFlag(Q, d, t) ==
    IF Len(Q.requestQueue) > 0
      THEN drainAcquire(
               [Q EXCEPT !.requestQueue = Tail(@),
                         !.drains[d] = [Idle EXCEPT !.task = Head(Q.requestQueue)]],
               d, t)
      ELSE [Q EXCEPT !.drains[d] = Idle]

drainLoop_pop(Q, d, t) ==
    IF Len(Q.requestQueue) > 0
      THEN drainAcquire(
               [Q EXCEPT !.requestQueue = SubSeq(@, 1, Len(@) - 1),
                         !.drains[d] =
                             [Idle EXCEPT !.task = Q.requestQueue[Len(Q.requestQueue)]]],
               d, t)
      ELSE [Q EXCEPT !.isProcessingQueue = FALSE, !.drains[d] = Idle]

drainLoop(Q, d, t) ==
    IF Len(Q.requestQueue) > 0
      THEN drainAcquire(
               [Q EXCEPT !.requestQueue = Tail(@),
                         !.drains[d] = [Idle EXCEPT !.task = Head(Q.requestQueue)]],
               d, t)
      ELSE [Q EXCEPT !.isProcessingQueue = FALSE, !.drains[d] = Idle]

\* processQueue lines 130-136: the awaited task has settled (threw = it
\* rejected); the catch swallows the rejection and the loop goes on.
afterTask_noCatch(Q, d, t, threw) ==
    IF threw THEN [Q EXCEPT !.drains[d] = Idle] ELSE drainLoop(Q, d, t)

afterTask(Q, d, t, threw) == drainLoop(Q, d, t)

FreeDrains(Q) == {d \in DrainIds : Q.drains[d].pc = "idle"}

\* processQueue lines 122-125: the guard, and the start of a drain.
processQueue_noGuard(Q, t) ==
    IF Len(Q.requestQueue) = 0 \/ FreeDrains(Q) = {}
      THEN Q
      ELSE drainLoop([Q EXCEPT !.isProcessingQueue = TRUE],
                     CHOOSE d \in FreeDrains(Q) : \A e \in FreeDrains(Q) : d <= e, t)

processQueue(Q, t) ==
    IF Q.isProcessingQueue \/ Len(Q.requestQueue) = 0 \/ FreeDrains(Q) = {}
      THEN Q
      ELSE drainLoop([Q EXCEPT !.isProcessingQueue = TRUE],
                     CHOOSE d \in FreeDrains(Q) : \A e \in FreeDrains(Q) : d <= e, t)

\* queueRequest lines 140-143.
queueRequest(Q, task, t) ==
    processQueue([Q EXCEPT !.requestQueue = Append(@, [task EXCEPT !.id = Q.nextId]),
                           !.nextId = @ + 1], t)

\* fetchTokenData line 147 and fetchBatch line 187: the fetch function's own
\* call of waitForAvailability; p is the record of the calling process.
fetchStart_noAcquire(rl, p, t) ==
    [rl |-> rl, p |-> [p EXCEPT !.pc = "taskReady", !.wakeAt = 0]]

fetchStart(rl, p, t) ==
    LET w == waitForAvailability(rl, t)
    IN  [rl |-> w.rl,
         p  |-> IF w.granted
                  THEN [p EXCEPT !.pc = "taskReady", !.wakeAt = 0,
                                 !.permits = @ + 1, !.own = @ + 1]
                  ELSE [p EXCEPT !.pc = "taskSleep", !.wakeAt = t + w.waitTime]]

CurQ == [requestQueue |-> requestQueue, isProcessingQueue |-> isProcessingQueue,
         rateLimiter |-> rateLimiter, drains |-> drains, nextId |-> nextId]

SetQ(Q) ==
    /\ requestQueue' = Q.requestQueue
    /\ isProcessingQueue' = Q.isProcessingQueue
    /\ rateLimiter' = Q.rateLimiter
    /\ drains' = Q.drains
    /\ nextId' = Q.nextId

\* The state after the module is loaded: the singleton is constructed,
\* nothing is subscribed, the interval timer is started.
InitService ==
    /\ page = NoPage
    /\ subscribers = <<>>
    /\ tokenData = <<>>
    /\ lastUpdateTime = <<>>
    /\ requestQueue = <<>>
    /\ isProcessingQueue = FALSE
    /\ drains = [d \in DrainIds |-> Idle]
    /\ direct = Idle
    /\ directCalls = 0
    /\ lastTick = StartTime
    /\ nextId = 1
    /\ invokedLog = <<>>
    /\ returned = NoFn
    /\ ev = NoEv

(***************************************************************************)
(* What a fetch does with the response.                                    *)
(***************************************************************************)
\* Set.forEach((callback) => callback(pair)): the callbacks run in insertion
\* order until one throws; bad is the set of callbacks that throw this time.
Throws(cbs, bad) == \E i \in 1..Len(cbs) : cbs[i] \in bad
InvokedUntilThrow(cbs, bad) ==
    IF Throws(cbs, bad)
      THEN SubSeq(cbs, 1, CHOOSE i \in 1..Len(cbs) :
                              /\ cbs[i] \in bad
                              /\ \A j \in 1..(i - 1) : cbs[j] \notin bad)
      ELSE cbs
Calls(k, cbs, via, pair) ==
    [i \in 1..Len(cbs) |-> [addr |-> k, cb |-> cbs[i], via |-> via, pair |-> pair]]

\* fetchTokenData lines 158-163: the stable sort by liquidity, descending,
\* and its first element: the earliest pair of the largest liquidity.
sortedFirst(pairs) ==
    pairs[CHOOSE i \in 1..Len(pairs) :
              /\ \A j \in 1..Len(pairs) : liquidityUsd(pairs[j]) <= liquidityUsd(pairs[i])
              /\ \A j \in 1..(i - 1) : liquidityUsd(pairs[j]) < liquidityUsd(pairs[i])]

\* fetchTokenData lines 151-179, after the response has arrived.  The
\* result is the new cache, the callbacks invoked and the value returned
\* (NoPair stands for null).
fetchTokenData_storesUndefined(address, resp, bad, subs, td, lut, t) ==
    IF ~resp.ok
      THEN [tokenData |-> td, lastUpdateTime |-> lut, invoked |-> <<>>,
            wrote |-> {}, ret |-> NoPair]
      ELSE LET pair == IF Len(resp.pairs) = 0 THEN NoPair ELSE sortedFirst(resp.pairs)
               normalizedAddress == toLowerCase(address)
               cbs == Get(subs, normalizedAddress)
           IN  [tokenData |-> Put(td, normalizedAddress, pair),
                lastUpdateTime |-> Put(lut, normalizedAddress, t),
                invoked |-> Calls(normalizedAddress, InvokedUntilThrow(cbs, bad),
                                  "subscribers", pair),
                wrote |-> {normalizedAddress},
                ret |-> IF Throws(cbs, bad) THEN NoPair ELSE pair]

fetchTokenData_stampsFailure(address, resp, bad, subs, td, lut, t) ==
    IF ~resp.ok \/ Len(resp.pairs) = 0
      THEN [tokenData |-> td, lastUpdateTime |-> Put(lut, toLowerCase(address), t),
            invoked |-> <<>>, wrote |-> {}, ret |-> NoPair]
      ELSE LET pair == sortedFirst(resp.pairs)
               normalizedAddress == toLowerCase(address)
               cbs == Get(subs, normalizedAddress)
           IN  [tokenData |-> Put(td, normalizedAddress, pair),
                lastUpdateTime |-> Put(lut, normalizedAddress, t),
                invoked |-> Calls(normalizedAddress, InvokedUntilThrow(cbs, bad),
                                  "subscribers", pair),
                wrote |-> {normalizedAddress},
                ret |-> IF Throws(cbs, bad) THEN NoPair ELSE pair]

fetchTokenData(address, resp, bad, subs, td, lut, t) ==
    IF ~resp.ok \/ Len(resp.pairs) = 0
      THEN [tokenData |-> td, lastUpdateTime |-> lut, invoked |-> <<>>,
            wrote |-> {}, ret |-> NoPair]
      ELSE LET pair == sortedFirst(resp.pairs)
               normalizedAddress == toLowerCase(address)
               cbs == Get(subs, normalizedAddress)
           IN  [tokenData |-> Put(td, normalizedAddress, pair),
                lastUpdateTime |-> Put(lut, normalizedAddress, t),
                invoked |-> Calls(normalizedAddress, InvokedUntilThrow(cbs, bad),
                                  "subscribers", pair),
                wrote |-> {normalizedAddress},
                ret |-> IF Throws(cbs, bad) THEN NoPair ELSE pair]

\* The keys fetchBatch makes of the pairs of a response (line 203).
PresentKeys(pairs) == {toLowerCase(pairs[i].address) : i \in 1..Len(pairs)}

\* fetchBatch lines 201-212: pairsByAddress, a Map in insertion order.
HasP(m, k) == \E i \in 1..Len(m) : m[i].addr = k
GetP(m, k) == m[CHOOSE i \in 1..Len(m) : m[i].addr = k].pair
SetP(m, k, v) ==
    IF HasP(m, k)
      THEN [i \in 1..Len(m) |-> IF m[i].addr = k THEN [addr |-> k, pair |-> v] ELSE m[i]]
      ELSE Append(m, [addr |-> k, pair |-> v])
RECURSIVE pairsByAddress(_, _)
pairsByAddress(pairs, acc) ==
    IF pairs = <<>> THEN acc
    ELSE LET pair == Head(pairs)
             address == toLowerCase(pair.address)
         IN  pairsByAddress(Tail(pairs),
                 IF ~HasP(acc, address)
                      \/ liquidityUsd(pair) > liquidityUsd(GetP(acc, address))
                   THEN SetP(acc, address, pair)
                   ELSE acc)

\* fetchBatch lines 214-223: every entry is written and its subscribers are
\* notified; a callback that throws ends the loop (line 225 catches).
RECURSIVE applyEntries(_, _, _, _, _)
applyEntries(entries, st, subs, bad, t) ==
    IF entries = <<>> \/ st.threw THEN st
    ELSE LET e == Head(entries)
             cbs == Get(subs, e.addr)
         IN  applyEntries(Tail(entries),
                 [tokenData |-> Put(st.tokenData, e.addr, e.pair),
                  lastUpdateTime |-> Put(st.lastUpdateTime, e.addr, t),
                  invoked |-> st.invoked \o
                              Calls(e.addr, InvokedUntilThrow(cbs, bad), "subscribers",
                                    e.pair),
                  wrote |-> st.wrote \cup {e.addr},
                  threw |-> Throws(cbs, bad)],
                 subs, bad, t)

\* fetchBatch lines 194-227, after the response has arrived.
fetchBatch_stampsBatch(addresses, resp, bad, subs, td, lut, t) ==
    LET st0 == [tokenData |-> td, lastUpdateTime |-> lut, invoked |-> <<>>,
                wrote |-> {}, threw |-> FALSE]
        st1 == applyEntries(pairsByAddress(resp.pairs, <<>>), st0, subs, bad, t)
    IN  IF ~resp.ok THEN st0
        ELSE [st1 EXCEPT !.lastUpdateTime =
                 [k \in DOMAIN st1.lastUpdateTime \cup SeqToSet(addresses) |->
                     IF k \in SeqToSet(addresses) THEN t ELSE st1.lastUpdateTime[k]]]

fetchBatch(addresses, resp, bad, subs, td, lut, t) ==
    LET st0 == [tokenData |-> td, lastUpdateTime |-> lut, invoked |-> <<>>,
                wrote |-> {}, threw |-> FALSE]
    IN  IF ~resp.ok THEN st0
        ELSE applyEntries(pairsByAddress(resp.pairs, <<>>), st0, subs, bad, t)

(***************************************************************************)
(* The subscription registry.                                              *)
(***************************************************************************)
\* subscribe lines 255-260.
subscribe_noNormalize(subs, address, callback) ==
    LET s1 == IF ~Has(subs, address)
                THEN Append(subs, [addr |-> address, cbs |-> <<>>])
                ELSE subs
    IN  [s1 EXCEPT ![IndexOf(s1, address)].cbs = SetAdd(@, callback)]

subscribe(subs, address, callback) ==
    LET normalizedAddress == toLowerCase(address)
        s1 == IF ~Has(subs, normalizedAddress)
                THEN Append(subs, [addr |-> normalizedAddress, cbs |-> <<>>])
                ELSE subs
    IN  [s1 EXCEPT ![IndexOf(s1, normalizedAddress)].cbs = SetAdd(@, callback)]

\* unsubscribe lines 273-281, on R = [subscribers, tokenData, lastUpdateTime].
unsubscribe_keepCache(R, address, callback) ==
    LET normalizedAddress == toLowerCase(address)
        s1 == IF Has(R.subscribers, normalizedAddress)
                THEN [R.subscribers EXCEPT
                        ![IndexOf(R.subscribers, normalizedAddress)].cbs =
                            SetDelete(@, callback)]
                ELSE R.subscribers
    IN  IF Has(s1, normalizedAddress) /\ Len(Get(s1, normalizedAddress)) = 0
          THEN [R EXCEPT !.subscribers = Delete(s1, normalizedAddress)]
          ELSE [R EXCEPT !.subscribers = s1]

unsubscribe_keepTimestamp(R, address, callback) ==
    LET normalizedAddress == toLowerCase(address)
        s1 == IF Has(R.subscribers, normalizedAddress)
                THEN [R.subscribers EXCEPT
                        ![IndexOf(R.subscribers, normalizedAddress)].cbs =
                            SetDelete(@, callback)]
                ELSE R.subscribers
    IN  IF Has(s1, normalizedAddress) /\ Len(Get(s1, normalizedAddress)) = 0
          THEN [subscribers |-> Delete(s1, normalizedAddress),
                tokenData |-> Remove(R.tokenData, normalizedAddress),
                lastUpdateTime |-> R.lastUpdateTime]
          ELSE [R EXCEPT !.subscribers = s1]

unsubscribe(R, address, callback) ==
    LET normalizedAddress == toLowerCase(address)
        s1 == IF Has(R.subscribers, normalizedAddress)
                THEN [R.subscribers EXCEPT
                        ![IndexOf(R.subscribers, normalizedAddress)].cbs =
                            SetDelete(@, callback)]
                ELSE R.subscribers
    IN  IF Has(s1, normalizedAddress) /\ Len(Get(s1, normalizedAddress)) = 0
          THEN [subscribers |-> Delete(s1, normalizedAddress),
                tokenData |-> Remove(R.tokenData, normalizedAddress),
                lastUpdateTime |-> Remove(R.lastUpdateTime, normalizedAddress)]
          ELSE [R EXCEPT !.subscribers = s1]

CurR == [subscribers |-> subscribers, tokenData |-> tokenData,
         lastUpdateTime |-> lastUpdateTime]

\* getTokenData lines 283-285; NoPair stands for null.
getTokenData(td, address) ==
    IF toLowerCase(address) \in DOMAIN td THEN td[toLowerCase(address)] ELSE NoPair

(***************************************************************************)
(* The update scheduler.                                                   *)
(***************************************************************************)
\* startUpdates lines 238-241: the subscribed addresses that are stale.
staleAddresses_strict(subs, lut, t) ==
    SelectSeq(Keys(subs),
              LAMBDA addr :
                  t - (IF addr \in DOMAIN lut THEN lut[addr] ELSE 0) > UPDATE_INTERVAL)

staleAddresses(subs, lut, t) ==
    SelectSeq(Keys(subs),
              LAMBDA addr :
                  t - (IF addr \in DOMAIN lut THEN lut[addr] ELSE 0) >= UPDATE_INTERVAL)

\* startUpdates lines 244-247: the slices of BATCH_SIZE addresses.
RECURSIVE batchesOf(_)
batchesOf(addresses) ==
    IF Len(addresses) = 0 THEN <<>>
    ELSE IF Len(addresses) <= BATCH_SIZE THEN <<addresses>>
    ELSE <<SubSeq(addresses, 1, BATCH_SIZE)>> \o
         batchesOf(SubSeq(addresses, BATCH_SIZE + 1, Len(addresses)))

\* updateBatch lines 182-231: one fetchBatch task is queued for the batch.
updateBatch(Q, addresses, t) ==
    IF Len(addresses) = 0 THEN Q ELSE queueRequest(Q, BatchTask(addresses), t)

RECURSIVE updateBatches(_, _, _)
updateBatches(Q, batches, t) ==
    IF batches = <<>> THEN Q
    ELSE updateBatches(updateBatch(Q, Head(batches), t), Tail(batches), t)

(***************************************************************************)
(* Specification Spec: the service.  Consumers subscribe and unsubscribe,  *)
(* addToken calls fetchTokenData directly, the interval timer ticks, and   *)
(* timers and network responses resume the suspended code.                 *)
(***************************************************************************)
InitQueue ==
    /\ now = StartTime
    /\ rateLimiter = NewRateLimiter
    /\ opLog = [t \in Times |-> 0]
    /\ callers = [c \in Callers |-> [pc |-> "idle", wakeAt |-> 0]]
    /\ InitService

\* Spec has no addToken of its own: it starts after addToken may have made
\* one fetchTokenData call that found no data, which leaves nothing behind
\* but one operation recorded by the limiter.
Init ==
    /\ now = StartTime
    /\ \E r \in 0..1 : rateLimiter = [NewRateLimiter EXCEPT !.requests = r]
    /\ opLog = [t \in Times |-> 0]
    /\ callers = [c \in Callers |-> [pc |-> "idle", wakeAt |-> 0]]
    /\ InitService

\* subscribe(address, callback), lines 251-271.
Subscribe(address, callback, cap) ==
    /\ nextId <= cap
    /\ subscribers' = subscribe(subscribers, address, callback)
    /\ SetQ(queueRequest(CurQ, SingleTask(toLowerCase(address), callback), now))
    /\ returned' = [addr |-> toLowerCase(address), cb |-> callback]
    /\ ev' = Ev("subscribe")
    /\ UNCHANGED <<now, opLog, callers, tokenData, lastUpdateTime, direct, lastTick,
                   invokedLog,
                   directCalls, page>>

UnsubscribeEv(op, address, callback, R) ==
    [Ev(op) EXCEPT
        !.afterSub = /\ ev.op = "subscribe"
                     /\ returned = [addr |-> toLowerCase(address), cb |-> callback],
        !.evicted = DOMAIN R.tokenData # DOMAIN tokenData]

\* unsubscribe(address, callback), lines 273-281.
Unsubscribe(address, callback) ==
    LET R == unsubscribe(CurR, address, callback)
    IN  /\ subscribers' = R.subscribers
        /\ tokenData' = R.tokenData
        /\ lastUpdateTime' = R.lastUpdateTime
        /\ ev' = UnsubscribeEv("unsubscribe", address, callback, R)
        /\ UNCHANGED <<now, rateLimiter, opLog, callers, requestQueue,
                       isProcessingQueue, drains, direct, lastTick, nextId,
                       invokedLog, returned,
                   directCalls, page>>

\* A call of the function subscribe returned, line 270.
CallReturned ==
    /\ returned # NoFn
    /\ LET R == unsubscribe(CurR, returned.addr, returned.cb)
       IN  /\ subscribers' = R.subscribers
           /\ tokenData' = R.tokenData
           /\ lastUpdateTime' = R.lastUpdateTime
           /\ ev' = UnsubscribeEv("callReturned", returned.addr, returned.cb, R)
    /\ UNCHANGED <<now, rateLimiter, opLog, callers, requestQueue, isProcessingQueue,
                   drains, direct, lastTick, nextId, invokedLog, returned,
                   directCalls, page>>

\* The setInterval callback of startUpdates, lines 236-248.
IntervalTick(cap) ==
    LET batches == batchesOf(staleAddresses(subscribers, lastUpdateTime, now))
    IN  /\ now - lastTick >= UPDATE_INTERVAL
        /\ nextId + Len(batches) <= cap + 1
        /\ SetQ(updateBatches(CurQ, batches, now))
        /\ lastTick' = now
        /\ ev' = Ev("tick")
        /\ UNCHANGED <<now, opLog, callers, subscribers, tokenData, lastUpdateTime,
                       direct, invokedLog, returned,
                   directCalls, page>>

\* The timer of a drain waiting at line 129 fires; waitForAvailability retries.
DrainWake(d) ==
    /\ drains[d].pc = "limiterSleep"
    /\ now >= drains[d].wakeAt
    /\ SetQ(drainAcquire(CurQ, d, now))
    /\ ev' = Ev("drainWake")
    /\ UNCHANGED <<now, opLog, callers, subscribers, tokenData, lastUpdateTime, direct,
                   lastTick, invokedLog, returned,
                   directCalls, page>>

\* Line 131: the drain invokes the task, which runs up to the await of its
\* own waitForAvailability call (line 147 or 187).
DrainInvoke(d) ==
    /\ drains[d].pc = "ready"
    /\ LET f == fetchStart(rateLimiter, drains[d], now)
       IN  /\ rateLimiter' = f.rl
           /\ drains' = [drains EXCEPT ![d] = f.p]
    /\ invokedLog' = Append(invokedLog, drains[d].task.id)
    /\ ev' = Ev("invoke")
    /\ UNCHANGED <<now, opLog, callers, subscribers, tokenData, lastUpdateTime,
                   requestQueue, isProcessingQueue, direct, lastTick, nextId, returned,
                   directCalls, page>>

\* The timer of a task waiting in its own waitForAvailability call fires.
TaskWake(d) ==
    /\ drains[d].pc = "taskSleep"
    /\ now >= drains[d].wakeAt
    /\ LET f == fetchStart(rateLimiter, drains[d], now)
       IN  /\ rateLimiter' = f.rl
           /\ drains' = [drains EXCEPT ![d] = f.p]
    /\ ev' = Ev("taskWake")
    /\ UNCHANGED <<now, opLog, callers, subscribers, tokenData, lastUpdateTime,
                   requestQueue, isProcessingQueue, direct, lastTick, nextId,
                   invokedLog, returned,
                   directCalls, page>>

\* Lines 149 and 190: the task issues its network call.
TaskIssue(d) ==
    /\ drains[d].pc = "taskReady"
    /\ drains' = [drains EXCEPT ![d].pc = "fetching"]
    /\ ev' = Ev("issue")
    /\ UNCHANGED <<now, rateLimiter, opLog, callers, subscribers, tokenData,
                   lastUpdateTime, requestQueue, isProcessingQueue, direct, lastTick,
                   nextId, invokedLog, returned,
                   directCalls, page>>

\* The response of a task's network call arrives: the fetch function handles
\* it, the subscribe-time task calls its callback (line 266), the task
\* settles and the drain goes on with its loop.  each is the set of
\* callbacks that throw in forEach, last says whether line 266 throws.
TaskResponse(d, resp, each, last) ==
    /\ drains[d].pc = "fetching"
    /\ LET task == drains[d].task
           r == IF task.kind = "single"
                  THEN fetchTokenData(task.addr, resp, each, subscribers, tokenData,
                                      lastUpdateTime, now)
                  ELSE fetchBatch(task.addresses, resp, each, subscribers, tokenData,
                                  lastUpdateTime, now)
           called == task.kind = "single" /\ r.ret # NoPair
           present == IF resp.ok THEN PresentKeys(resp.pairs) ELSE {}
           threw == called /\ last /\ task.cb \in MayThrow
       IN  /\ tokenData' = r.tokenData
           /\ lastUpdateTime' = r.lastUpdateTime
           /\ SetQ(afterTask(CurQ, d, now, threw))
           /\ ev' = [Ev("taskResponse") EXCEPT
                        !.threw = threw,
                        !.failed = ~resp.ok,
                        !.partial = /\ task.kind = "batch"
                                    /\ SeqToSet(task.addresses) \cap present # {}
                                    /\ SeqToSet(task.addresses) \ present # {},
                        !.calls = r.invoked \o
                                  (IF called
                                     THEN Calls(toLowerCase(task.addr), <<task.cb>>,
                                                "task", r.ret)
                                     ELSE <<>>)]
    /\ UNCHANGED <<now, opLog, callers, subscribers, direct, lastTick, invokedLog,
                   returned,
                   directCalls, page>>

\* addToken calls fetchTokenData outside the queue (page.tsx line 110).
DirectCall(address) ==
    /\ direct.pc = "idle"
    /\ directCalls < MaxDirect
    /\ directCalls' = directCalls + 1
    /\ LET f == fetchStart(rateLimiter, [Idle EXCEPT !.task = SingleTask(address, "")],
                           now)
       IN  /\ rateLimiter' = f.rl
           /\ direct' = f.p
    /\ ev' = Ev("directCall")
    /\ UNCHANGED <<now, opLog, callers, subscribers, tokenData, lastUpdateTime,
                   requestQueue, isProcessingQueue, drains, lastTick, nextId,
                   invokedLog, returned, page>>

DirectWake ==
    /\ direct.pc = "taskSleep"
    /\ now >= direct.wakeAt
    /\ LET f == fetchStart(rateLimiter, direct, now)
       IN  /\ rateLimiter' = f.rl
           /\ direct' = f.p
    /\ ev' = Ev("directWake")
    /\ UNCHANGED <<now, opLog, callers, subscribers, tokenData, lastUpdateTime,
                   requestQueue, isProcessingQueue, drains, lastTick, nextId,
                   invokedLog, returned,
                   directCalls, page>>

DirectIssue ==
    /\ direct.pc = "taskReady"
    /\ direct' = [direct EXCEPT !.pc = "fetching"]
    /\ ev' = Ev("directIssue")
    /\ UNCHANGED <<now, rateLimiter, opLog, callers, subscribers, tokenData,
                   lastUpdateTime, requestQueue, isProcessingQueue, drains, lastTick,
                   nextId, invokedLog, returned,
                   directCalls, page>>

DirectResponse(resp, each) ==
    /\ direct.pc = "fetching"
    /\ LET r == fetchTokenData(direct.task.addr, resp, each, subscribers, tokenData,
                               lastUpdateTime, now)
       IN  /\ tokenData' = r.tokenData
           /\ lastUpdateTime' = r.lastUpdateTime
           /\ ev' = [Ev("directResponse") EXCEPT !.calls = r.invoked]
    /\ direct' = Idle
    /\ UNCHANGED <<now, rateLimiter, opLog, callers, subscribers, requestQueue,
                   isProcessingQueue, drains, lastTick, nextId, invokedLog, returned,
                   directCalls, page>>

\* Time passes.
TimePasses(horizon) ==
    /\ now < StartTime + horizon
    /\ now' = now + 1
    /\ ev' = Ev("time")
    /\ UNCHANGED <<rateLimiter, opLog, callers, subscribers, tokenData, lastUpdateTime,
                   requestQueue, isProcessingQueue, drains, direct, lastTick, nextId,
                   invokedLog, returned,
                   directCalls, page>>

\* The steps of the queue, common to both service specifications.
QueueSteps ==
    \/ \E d \in DrainIds : DrainWake(d)
    \/ \E d \in DrainIds : DrainInvoke(d)
    \/ \E d \in DrainIds : TaskWake(d)
    \/ \E d \in DrainIds : TaskIssue(d)
    \/ \E d \in DrainIds, resp \in Responses, each \in SUBSET MayThrow, last \in BOOLEAN :
           TaskResponse(d, resp, each, last)

\* Spec: the registry.  Consumers subscribe and unsubscribe any address
\* with any callback.
Next ==
    \/ \E a \in RawAddrs, h \in Handles : Subscribe(a, h, MaxRegTasks)
    \/ \E a \in RawAddrs, h \in Handles : Unsubscribe(a, h)
    \/ CallReturned
    \/ IntervalTick(MaxRegTasks)
    \/ QueueSteps
    \/ TimePasses(RegHorizon)

Spec == Init /\ [][Next]_vars

\* SpecQueue: the queue under load.  One token is subscribed again and
\* again with a callback that may throw, the scheduler ticks, and addToken
\* fetches outside the queue.
NextQueue ==
    \/ \E h \in MayThrow : Subscribe(<<"A">>, h, MaxTasks)
    \/ IntervalTick(MaxTasks)
    \/ QueueSteps
    \/ DirectCall(<<"A">>)
    \/ DirectWake
    \/ DirectIssue
    \/ \E resp \in Responses, each \in SUBSET MayThrow : DirectResponse(resp, each)
    \/ TimePasses(QueueHorizon)

SpecQueue == InitQueue /\ [][NextQueue]_vars

\* SpecQueueLive: the queue of SpecQueue with the scheduling of the event
\* loop.  A timer that was set fires when its time has come, a continuation
\* that is ready runs, the network answers every call, and the clock goes
\* on for as long as a timer is pending.
Sleepers ==
    {drains[d].wakeAt : d \in {e \in DrainIds : drains[e].pc \in {"limiterSleep", "taskSleep"}}}
        \cup (IF direct.pc = "taskSleep" THEN {direct.wakeAt} ELSE {})

TimeAdvances(horizon) ==
    /\ now < StartTime + horizon \/ \E w \in Sleepers : w > now
    /\ now' = now + 1
    /\ ev' = Ev("time")
    /\ UNCHANGED <<rateLimiter, opLog, callers, subscribers, tokenData, lastUpdateTime,
                   requestQueue, isProcessingQueue, drains, direct, lastTick, nextId,
                   invokedLog, returned, directCalls, page>>

NextQueueLive ==
    \/ \E h \in MayThrow : Subscribe(<<"A">>, h, MaxTasks)
    \/ IntervalTick(MaxTasks)
    \/ QueueSteps
    \/ DirectCall(<<"A">>)
    \/ DirectWake
    \/ DirectIssue
    \/ \E resp \in Responses, each \in SUBSET MayThrow : DirectResponse(resp, each)
    \/ TimeAdvances(LiveHorizon)

SpecQueueLive ==
    /\ InitQueue
    /\ [][NextQueueLive]_vars
    /\ WF_vars(QueueSteps)
    /\ WF_vars(TimeAdvances(LiveHorizon))

(***************************************************************************)
(* Specification SpecSched: the scheduler and the handling of responses.   *)
(* It starts some time after four tokens were subscribed, when their       *)
(* subscribe-time fetches have failed and left the queue empty: nothing is *)
(* cached, the limiter's window and the interval timer are half over.      *)
(* nextId and invokedLog count from that moment.                           *)
(***************************************************************************)
\* The responses: a failure, no pairs, one token of a batch only, two pairs
\* of one base token in both orders, a pair without liquidity, and a list
\* in which the pair of another base token has the largest liquidity.
SchedResponses ==
    {[ok |-> FALSE, pairs |-> <<>>]} \cup
    {[ok |-> TRUE, pairs |-> p] :
        p \in {<<>>,
               <<Pair(<<"A">>, <<1>>)>>,
               <<Pair(<<"b">>, <<1>>)>>,
               <<Pair(<<"A">>, <<1>>), Pair(<<"A">>, <<2>>)>>,
               <<Pair(<<"A">>, <<2>>), Pair(<<"A">>, <<1>>)>>,
               <<Pair(<<"A">>, <<>>), Pair(<<"A">>, <<1>>)>>,
               <<Pair(<<"A">>, <<1>>), Pair(<<"b">>, <<1>>)>>,
               <<Pair(<<"A">>, <<>>), Pair(<<"A">>, <<1>>), Pair(<<"b">>, <<2>>)>>}}

\* The registration SpecSched starts from: four tokens, each with one
\* callback.
Registration == <<<<"b">>, <<"a">>, <<"c">>, <<"d">>>>

InitSched ==
    /\ now = StartTime
    /\ \E r \in 1..limit :
          rateLimiter = [requests |-> r, lastReset |-> StartTime - 1]
    /\ opLog = [t \in Times |-> 0]
    /\ callers = [c \in Callers |-> [pc |-> "idle", wakeAt |-> 0]]
    /\ subscribers = [i \in DOMAIN Registration |->
                         [addr |-> Registration[i], cbs |-> <<"h1">>]]
    /\ tokenData = <<>>
    /\ lastUpdateTime = <<>>
    /\ requestQueue = <<>>
    /\ isProcessingQueue = FALSE
    /\ drains = [d \in DrainIds |-> Idle]
    /\ direct = Idle
    /\ directCalls = 0
    /\ lastTick = StartTime - 1
    /\ nextId = 1
    /\ invokedLog = <<>>
    /\ returned = NoFn
    /\ ev = NoEv
    /\ page = NoPage

NextSched ==
    \/ Subscribe(<<"A">>, "h1", MaxSchedTasks)
    \/ Unsubscribe(<<"b">>, "h1")
    \/ IntervalTick(MaxSchedTasks)
    \/ \E d \in DrainIds : DrainWake(d)
    \/ \E d \in DrainIds : DrainInvoke(d)
    \/ \E d \in DrainIds : TaskWake(d)
    \/ \E d \in DrainIds : TaskIssue(d)
    \/ \E d \in DrainIds, resp \in SchedResponses : TaskResponse(d, resp, {}, FALSE)
    \/ TimePasses(SchedHorizon)

SpecSched == InitSched /\ [][NextSched]_vars

(***************************************************************************)
(* Numbers of the page.  A JavaScript number is modelled by the exact      *)
(* fraction n/d in lowest terms with d > 0; d = 0 stands for the values a  *)
(* division by zero produces: NaN (n = 0), Infinity (n = 1) and -Infinity  *)
(* (n = -1).  The rounding of IEEE 754 doubles is not modelled.            *)
(***************************************************************************)
Abs(x) == IF x < 0 THEN -x ELSE x
Sign(x) == IF x < 0 THEN -1 ELSE IF x > 0 THEN 1 ELSE 0
RECURSIVE GCD(_, _)
GCD(a, b) == IF b = 0 THEN a ELSE GCD(b, a % b)
Norm(n, d) ==
    IF d = 0 THEN [n |-> Sign(n), d |-> 0]
    ELSE LET g == GCD(Abs(n), d) IN [n |-> n \div g, d |-> d \div g]
Num(i) == [n |-> i, d |-> 1]
NaN == [n |-> 0, d |-> 0]
NumNeg(a) == [n |-> -a.n, d |-> a.d]
NumAdd(a, b) ==
    IF a.d = 0 /\ b.d = 0 THEN (IF a.n = b.n THEN a ELSE NaN)
    ELSE Norm(a.n * b.d + b.n * a.d, a.d * b.d)
NumSub(a, b) == NumAdd(a, NumNeg(b))
NumMul(a, b) == Norm(a.n * b.n, a.d * b.d)
NumDiv(a, b) ==
    LET sgn == IF b.n < 0 THEN -1 ELSE 1
    IN  Norm(a.n * b.d * sgn, a.d * b.n * sgn)
\* a > b; FALSE when a - b is NaN.
NumGT(a, b) == NumSub(a, b).n > 0

(***************************************************************************)
(* calculatePositionPnL, page.tsx lines 57-91.                             *)
(***************************************************************************)
\* A Trade: the fields calculatePositionPnL reads.
Trade(type, amount, price, value) ==
    [type |-> type, amount |-> Num(amount), price |-> Num(price), value |-> Num(value)]

\* Lines 63-77: trades.forEach, acc being the three local variables.
RECURSIVE forEachTrade(_, _)
forEachTrade(trades, acc) ==
    IF trades = <<>> THEN acc
    ELSE LET trade == Head(trades)
         IN  forEachTrade(Tail(trades),
                 IF trade.type = "buy"
                   THEN [acc EXCEPT !.totalCost = NumAdd(@, trade.value),
                                    !.totalTokens = NumAdd(@, trade.amount)]
                   ELSE LET avgCost == NumDiv(acc.totalCost, acc.totalTokens)
                            saleValue == NumMul(trade.amount, trade.price)
                            costBasis == NumMul(trade.amount, avgCost)
                            remainingRatio ==
                                NumDiv(NumSub(acc.totalTokens, trade.amount),
                                       acc.totalTokens)
                        IN  [realizedPnL |-> NumAdd(acc.realizedPnL,
                                                    NumSub(saleValue, costBasis)),
                             totalCost |-> NumMul(acc.totalCost, remainingRatio),
                             totalTokens |-> NumSub(acc.totalTokens, trade.amount)])

\* The loop with a sell that leaves totalCost as it was.
RECURSIVE forEachTrade_keepsCost(_, _)
forEachTrade_keepsCost(trades, acc) ==
    IF trades = <<>> THEN acc
    ELSE LET trade == Head(trades)
         IN  forEachTrade_keepsCost(Tail(trades),
                 IF trade.type = "buy"
                   THEN [acc EXCEPT !.totalCost = NumAdd(@, trade.value),
                                    !.totalTokens = NumAdd(@, trade.amount)]
                   ELSE LET avgCost == NumDiv(acc.totalCost, acc.totalTokens)
                            saleValue == NumMul(trade.amount, trade.price)
                            costBasis == NumMul(trade.amount, avgCost)
                        IN  [realizedPnL |-> NumAdd(acc.realizedPnL,
                                                    NumSub(saleValue, costBasis)),
                             totalCost |-> acc.totalCost,
                             totalTokens |-> NumSub(acc.totalTokens, trade.amount)])

calculatePositionPnL_keepsCost(trades, currentPrice) ==
    LET acc == forEachTrade_keepsCost(trades, [totalCost |-> Num(0),
                                               totalTokens |-> Num(0),
                                               realizedPnL |-> Num(0)])
        currentValue == NumMul(acc.totalTokens, currentPrice)
        unrealizedPnL == IF NumGT(acc.totalTokens, Num(0))
                           THEN NumSub(currentValue, acc.totalCost) ELSE Num(0)
    IN  [realizedPnL |-> acc.realizedPnL,
         unrealizedPnL |-> unrealizedPnL,
         totalPnL |-> NumAdd(acc.realizedPnL, unrealizedPnL),
         totalTokens |-> acc.totalTokens,
         averageCost |-> IF NumGT(acc.totalTokens, Num(0))
                           THEN NumDiv(acc.totalCost, acc.totalTokens) ELSE Num(0)]

calculatePositionPnL_noRealized(trades, currentPrice) ==
    LET acc == forEachTrade(trades, [totalCost |-> Num(0), totalTokens |-> Num(0),
                                     realizedPnL |-> Num(0)])
        currentValue == NumMul(acc.totalTokens, currentPrice)
        unrealizedPnL == IF NumGT(acc.totalTokens, Num(0))
                           THEN NumSub(currentValue, acc.totalCost) ELSE Num(0)
    IN  [realizedPnL |-> acc.realizedPnL,
         unrealizedPnL |-> unrealizedPnL,
         totalPnL |-> unrealizedPnL,
         totalTokens |-> acc.totalTokens,
         averageCost |-> IF NumGT(acc.totalTokens, Num(0))
                           THEN NumDiv(acc.totalCost, acc.totalTokens) ELSE Num(0)]

calculatePositionPnL(trades, currentPrice) ==
    LET acc == forEachTrade(trades, [totalCost |-> Num(0), totalTokens |-> Num(0),
                                     realizedPnL |-> Num(0)])
        currentValue == NumMul(acc.totalTokens, currentPrice)
        unrealizedPnL == IF NumGT(acc.totalTokens, Num(0))
                           THEN NumSub(currentValue, acc.totalCost) ELSE Num(0)
    IN  [realizedPnL |-> acc.realizedPnL,
         unrealizedPnL |-> unrealizedPnL,
         totalPnL |-> NumAdd(acc.realizedPnL, unrealizedPnL),
         totalTokens |-> acc.totalTokens,
         averageCost |-> IF NumGT(acc.totalTokens, Num(0))
                           THEN NumDiv(acc.totalCost, acc.totalTokens) ELSE Num(0)]

(***************************************************************************)
(* Specification SpecPnL: calculatePositionPnL applied to a trade list and *)
(* a current price.                                                        *)
(***************************************************************************)
\* The trades the lists are made of: buys of 10 tokens for $100 and of 5
\* for $60, and sells of 5 at $12, of 10 at $8 and of 3 at $10.
TradeSet ==
    {Trade("buy", 10, 10, 100), Trade("buy", 5, 12, 60),
     Trade("sell", 5, 12, 60), Trade("sell", 10, 8, 80), Trade("sell", 3, 10, 30)}
TradeLists == UNION {[1..n -> TradeSet] : n \in 0..MaxTrades}
Prices == {Num(8), Num(10), Num(12)}

InitPnL ==
    /\ now = StartTime
    /\ rateLimiter = NewRateLimiter
    /\ opLog = [t \in Times |-> 0]
    /\ callers = [c \in Callers |-> [pc |-> "idle", wakeAt |-> 0]]
    /\ subscribers = <<>>
    /\ tokenData = <<>>
    /\ lastUpdateTime = <<>>
    /\ requestQueue = <<>>
    /\ isProcessingQueue = FALSE
    /\ drains = [d \in DrainIds |-> Idle]
    /\ direct = Idle
    /\ directCalls = 0
    /\ lastTick = StartTime
    /\ nextId = 1
    /\ invokedLog = <<>>
    /\ returned = NoFn
    /\ ev = NoEv
    /\ \E trades \in TradeLists, currentPrice \in Prices :
          page = [trades |-> trades, currentPrice |-> currentPrice, pnl |-> <<>>]

\* Calls calculatePositionPnL(trades, currentPrice) with the same arguments;
\* pnl holds what the calls returned, in order.  The function reads its
\* arguments and writes only its own local variables (lines 59-61).
Calculate_keepsTotals ==
    /\ Len(page.pnl) < MaxCalls
    /\ page' = [page EXCEPT !.pnl =
                   Append(@, calculatePositionPnL(
                                 IF @ = <<>> THEN page.trades
                                 ELSE page.trades \o page.trades,
                                 page.currentPrice))]
    /\ ev' = Ev("calculate")
    /\ UNCHANGED <<now, rateLimiter, opLog, callers, subscribers, tokenData,
                   lastUpdateTime, requestQueue, isProcessingQueue, drains, direct,
                   directCalls, lastTick, nextId, invokedLog, returned>>

Calculate ==
    /\ Len(page.pnl) < MaxCalls
    /\ page' = [page EXCEPT !.pnl =
                   Append(@, calculatePositionPnL(page.trades, page.currentPrice))]
    /\ ev' = Ev("calculate")
    /\ UNCHANGED <<now, rateLimiter, opLog, callers, subscribers, tokenData,
                   lastUpdateTime, requestQueue, isProcessingQueue, drains, direct,
                   directCalls, lastTick, nextId, invokedLog, returned>>

NextPnL == Calculate

SpecPnL == InitPnL /\ [][NextPnL]_vars

(***************************************************************************)
(* TradingSimulator, src/app/page.tsx: the tracked tokens, the balance and *)
(* the trade log.  Under SpecPage the variable page is the component's     *)
(* state: balance, tokens (the positions, in the order they were added),   *)
(* trades (the log, newest first), error and isLoading.  The display-only  *)
(* fields (symbol, id, timestamp, newAddress, overallPnL) are left out.    *)
(***************************************************************************)
\* useState(1000), line 47.
initialBalance == 1000

\* priceUsd is a string; strings are sequences of characters.
Digits == <<"0", "1", "2", "3", "4", "5", "6", "7", "8", "9">>
IsDigit(c) == \E v \in 1..10 : Digits[v] = c
DigitVal(c) == (CHOOSE v \in 1..10 : Digits[v] = c) - 1
RECURSIVE DigitRun(_, _)
\* The number of digits of s from position i on.
DigitRun(s, i) == IF i <= Len(s) /\ IsDigit(s[i]) THEN 1 + DigitRun(s, i + 1) ELSE 0
RECURSIVE ValueOf(_, _, _)
\* The value of the k digits of s that start at position i.
ValueOf(s, i, k) ==
    IF k = 0 THEN 0 ELSE 10 * ValueOf(s, i, k - 1) + DigitVal(s[i + k - 1])
RECURSIVE Pow10(_)
Pow10(k) == IF k = 0 THEN 1 ELSE 10 * Pow10(k - 1)

\* parseFloat on decimal literals: an optional sign, digits, an optional
\* point and digits; what follows is ignored, and NaN when no digit is
\* found.
parseFloat(s) ==
    LET neg == Len(s) >= 1 /\ s[1] = "-"
        i0 == IF neg THEN 2 ELSE 1
        k == DigitRun(s, i0)
        hasDot == i0 + k <= Len(s) /\ s[i0 + k] = "."
        f == IF hasDot THEN DigitRun(s, i0 + k + 1) ELSE 0
        mag == NumAdd(Num(ValueOf(s, i0, k)), Norm(ValueOf(s, i0 + k + 1, f), Pow10(f)))
    IN  IF k + f = 0 THEN NaN ELSE IF neg THEN NumNeg(mag) ELSE mag

isNaN(x) == x = NaN

\* A pair with the fields the page reads.
PricedPair(a, priceUsd) == [address |-> a, liq |-> <<1>>, priceUsd |-> priceUsd]

\* A TokenPosition as addToken creates it, lines 119-127.
NewPosition(address, currentPrice) ==
    [address |-> address, holdings |-> Num(0), trades |-> <<>>, pnl |-> Num(0),
     averageCost |-> Num(0), currentPrice |-> currentPrice]

\* A Trade of the page, lines 164-172 and 205-213; pnl and pnlPercent are
\* <<>> while they are undefined.
NewTrade(type, amount, price, value, pnl, pnlPercent) ==
    [type |-> type, amount |-> amount, price |-> price, value |-> value,
     pnl |-> pnl, pnlPercent |-> pnlPercent]

\* tokens.find(t => t.address === tokenAddress): the index, 0 when none.
FindToken(tokens, tokenAddress) ==
    IF \E i \in DOMAIN tokens : tokens[i].address = tokenAddress
      THEN CHOOSE i \in DOMAIN tokens :
               /\ tokens[i].address = tokenAddress
               /\ \A j \in 1..(i - 1) : tokens[j].address # tokenAddress
      ELSE 0

(***************************************************************************)
(* addToken, lines 94-137.  The handler runs up to its await (line 110)    *)
(* and is resumed with what fetchTokenData returned.                       *)
(***************************************************************************)
\* Lines 95-108: the checks.  fetch says whether line 110 is reached; when
\* it is not, the finally clause has cleared isLoading.
addToken_rawCompare(P, newAddress) ==
    IF Len(P.tokens) >= MAX_TOKENS
      THEN [page |-> [P EXCEPT !.error = "Maximum 6 tokens allowed", !.isLoading = FALSE],
            fetch |-> FALSE, normalizedAddress |-> <<>>]
    ELSE IF \E i \in DOMAIN P.tokens : toLowerCase(P.tokens[i].address) = newAddress
      THEN [page |-> [P EXCEPT !.error = "Token already added", !.isLoading = FALSE],
            fetch |-> FALSE, normalizedAddress |-> <<>>]
    ELSE [page |-> [P EXCEPT !.error = "", !.isLoading = TRUE],
          fetch |-> TRUE, normalizedAddress |-> toLowerCase(newAddress)]

addToken_noCapacity(P, newAddress) ==
    IF \E i \in DOMAIN P.tokens :
              toLowerCase(P.tokens[i].address) = toLowerCase(newAddress)
      THEN [page |-> [P EXCEPT !.error = "Token already added", !.isLoading = FALSE],
            fetch |-> FALSE, normalizedAddress |-> <<>>]
    ELSE [page |-> [P EXCEPT !.error = "", !.isLoading = TRUE],
          fetch |-> TRUE, normalizedAddress |-> toLowerCase(newAddress)]

addToken(P, newAddress) ==
    IF Len(P.tokens) >= MAX_TOKENS
      THEN [page |-> [P EXCEPT !.error = "Maximum 6 tokens allowed", !.isLoading = FALSE],
            fetch |-> FALSE, normalizedAddress |-> <<>>]
    ELSE IF \E i \in DOMAIN P.tokens :
              toLowerCase(P.tokens[i].address) = toLowerCase(newAddress)
      THEN [page |-> [P EXCEPT !.error = "Token already added", !.isLoading = FALSE],
            fetch |-> FALSE, normalizedAddress |-> <<>>]
    ELSE [page |-> [P EXCEPT !.error = "", !.isLoading = TRUE],
          fetch |-> TRUE, normalizedAddress |-> toLowerCase(newAddress)]

\* Lines 110-136: after the await; pair is what fetchTokenData returned
\* (NoPair for null).
addTokenResumed(P, normalizedAddress, pair) ==
    IF pair = NoPair
      THEN [P EXCEPT !.error = "Invalid token address", !.isLoading = FALSE]
      ELSE [P EXCEPT !.tokens = Append(@, NewPosition(normalizedAddress,
                                                       parseFloat(pair.priceUsd))),
                     !.isLoading = FALSE]

(***************************************************************************)
(* handleTrade, lines 140-245.  The handler has no await: it runs in one   *)
(* piece, and React renders between two clicks, so that the balance and    *)
(* the tokens it closes over are the current ones.                         *)
(***************************************************************************)
\* Lines 158-195.
buy_noBalanceCheck(P, tokenAddress, amount, currentPrice) ==
    LET trade == NewTrade("buy", NumDiv(Num(amount), currentPrice), currentPrice,
                          Num(amount), <<>>, <<>>)
    IN  [P EXCEPT
           !.balance = NumSub(@, Num(amount)),
           !.tokens = [i \in DOMAIN P.tokens |->
               LET t == P.tokens[i]
                   updatedTrades == Append(t.trades, trade)
                   pnlData == calculatePositionPnL(updatedTrades, currentPrice)
               IN  IF t.address = tokenAddress
                     THEN [t EXCEPT !.holdings = pnlData.totalTokens,
                                    !.trades = updatedTrades,
                                    !.pnl = pnlData.totalPnL,
                                    !.averageCost = pnlData.averageCost,
                                    !.currentPrice = currentPrice]
                     ELSE t],
           !.trades = <<trade>> \o @]

buy_prepends(P, tokenAddress, amount, currentPrice) ==
    IF NumGT(Num(amount), P.balance)
      THEN [P EXCEPT !.error = "Insufficient balance"]
      ELSE LET trade == NewTrade("buy", NumDiv(Num(amount), currentPrice), currentPrice,
                                 Num(amount), <<>>, <<>>)
           IN  [P EXCEPT
                  !.balance = NumSub(@, Num(amount)),
                  !.tokens = [i \in DOMAIN P.tokens |->
                      LET t == P.tokens[i]
                          updatedTrades == <<trade>> \o t.trades
                          pnlData == calculatePositionPnL(updatedTrades, currentPrice)
                      IN  IF t.address = tokenAddress
                            THEN [t EXCEPT !.holdings = pnlData.totalTokens,
                                           !.trades = updatedTrades,
                                           !.pnl = pnlData.totalPnL,
                                           !.averageCost = pnlData.averageCost,
                                           !.currentPrice = currentPrice]
                            ELSE t],
                  !.trades = <<trade>> \o @]

buy(P, tokenAddress, amount, currentPrice) ==
    IF NumGT(Num(amount), P.balance)
      THEN [P EXCEPT !.error = "Insufficient balance"]
      ELSE LET trade == NewTrade("buy", NumDiv(Num(amount), currentPrice), currentPrice,
                                 Num(amount), <<>>, <<>>)
           IN  [P EXCEPT
                  !.balance = NumSub(@, Num(amount)),
                  !.tokens = [i \in DOMAIN P.tokens |->
                      LET t == P.tokens[i]
                          updatedTrades == Append(t.trades, trade)
                          pnlData == calculatePositionPnL(updatedTrades, currentPrice)
                      IN  IF t.address = tokenAddress
                            THEN [t EXCEPT !.holdings = pnlData.totalTokens,
                                           !.trades = updatedTrades,
                                           !.pnl = pnlData.totalPnL,
                                           !.averageCost = pnlData.averageCost,
                                           !.currentPrice = currentPrice]
                            ELSE t],
                  !.trades = <<trade>> \o @]

\* Lines 196-238.
sell_ownPnl(P, tokenAddress, amount, currentPrice) ==
    LET k == FindToken(P.tokens, tokenAddress)
        token == P.tokens[k]
        tokenAmount == NumDiv(Num(amount), currentPrice)
        pnlData == calculatePositionPnL(
                       Append(token.trades,
                              NewTrade("sell", tokenAmount, currentPrice, Num(amount),
                                       <<>>, <<>>)),
                       currentPrice)
        ownPnl == NumSub(pnlData.realizedPnL,
                         calculatePositionPnL(token.trades, currentPrice).realizedPnL)
        trade == NewTrade("sell", tokenAmount, currentPrice, Num(amount),
                          <<ownPnl>>,
                          <<NumMul(NumDiv(ownPnl, Num(amount)), Num(100))>>)
    IN  IF k = 0 THEN P
        ELSE IF NumGT(tokenAmount, token.holdings)
          THEN [P EXCEPT !.error = "Insufficient tokens"]
        ELSE [P EXCEPT
                !.balance = NumAdd(@, Num(amount)),
                !.tokens = [i \in DOMAIN P.tokens |->
                    LET t == P.tokens[i]
                    IN  IF t.address = tokenAddress
                          THEN [t EXCEPT !.holdings = pnlData.totalTokens,
                                         !.trades = Append(t.trades, trade),
                                         !.pnl = pnlData.totalPnL,
                                         !.averageCost = pnlData.averageCost,
                                         !.currentPrice = currentPrice]
                          ELSE t],
                !.trades = <<trade>> \o @]

sell_noHoldingsCheck(P, tokenAddress, amount, currentPrice) ==
    LET k == FindToken(P.tokens, tokenAddress)
        token == P.tokens[k]
        tokenAmount == NumDiv(Num(amount), currentPrice)
        pnlData == calculatePositionPnL(
                       Append(token.trades,
                              NewTrade("sell", tokenAmount, currentPrice, Num(amount),
                                       <<>>, <<>>)),
                       currentPrice)
        trade == NewTrade("sell", tokenAmount, currentPrice, Num(amount),
                          <<pnlData.realizedPnL>>,
                          <<NumMul(NumDiv(pnlData.realizedPnL, Num(amount)), Num(100))>>)
    IN  IF k = 0 THEN P
        ELSE [P EXCEPT
                !.balance = NumAdd(@, Num(amount)),
                !.tokens = [i \in DOMAIN P.tokens |->
                    LET t == P.tokens[i]
                    IN  IF t.address = tokenAddress
                          THEN [t EXCEPT !.holdings = pnlData.totalTokens,
                                         !.trades = Append(t.trades, trade),
                                         !.pnl = pnlData.totalPnL,
                                         !.averageCost = pnlData.averageCost,
                                         !.currentPrice = currentPrice]
                          ELSE t],
                !.trades = <<trade>> \o @]

sell(P, tokenAddress, amount, currentPrice) ==
    LET k == FindToken(P.tokens, tokenAddress)
        token == P.tokens[k]
        tokenAmount == NumDiv(Num(amount), currentPrice)
        pnlData == calculatePositionPnL(
                       Append(token.trades,
                              NewTrade("sell", tokenAmount, currentPrice, Num(amount),
                                       <<>>, <<>>)),
                       currentPrice)
        trade == NewTrade("sell", tokenAmount, currentPrice, Num(amount),
                          <<pnlData.realizedPnL>>,
                          <<NumMul(NumDiv(pnlData.realizedPnL, Num(amount)), Num(100))>>)
    IN  IF k = 0 THEN P
        ELSE IF NumGT(tokenAmount, token.holdings)
          THEN [P EXCEPT !.error = "Insufficient tokens"]
        ELSE [P EXCEPT
                !.balance = NumAdd(@, Num(amount)),
                !.tokens = [i \in DOMAIN P.tokens |->
                    LET t == P.tokens[i]
                    IN  IF t.address = tokenAddress
                          THEN [t EXCEPT !.holdings = pnlData.totalTokens,
                                         !.trades = Append(t.trades, trade),
                                         !.pnl = pnlData.totalPnL,
                                         !.averageCost = pnlData.averageCost,
                                         !.currentPrice = currentPrice]
                          ELSE t],
                !.trades = <<trade>> \o @]

\* Lines 142-157 and the dispatch; td is the service's cache.
handleTrade_debitsFirst(P, td, tokenAddress, isBuy, amount) ==
    LET tokenData_ == getTokenData(td, tokenAddress)
        currentPrice == parseFloat(tokenData_.priceUsd)
        P0 == [P EXCEPT !.error = "",
                        !.balance = IF isBuy THEN NumSub(@, Num(amount)) ELSE @]
    IN  IF tokenData_ = NoPair
          THEN [P0 EXCEPT !.error = "Token data not available"]
        ELSE IF isNaN(currentPrice) \/ ~NumGT(currentPrice, Num(0))
          THEN [P0 EXCEPT !.error = "Invalid price data"]
        ELSE IF isBuy THEN buy(P0, tokenAddress, amount, currentPrice)
        ELSE sell(P0, tokenAddress, amount, currentPrice)

handleTrade(P, td, tokenAddress, isBuy, amount) ==
    LET tokenData_ == getTokenData(td, tokenAddress)
        currentPrice == parseFloat(tokenData_.priceUsd)
        P0 == [P EXCEPT !.error = ""]
    IN  IF tokenData_ = NoPair
          THEN [P0 EXCEPT !.error = "Token data not available"]
        ELSE IF isNaN(currentPrice) \/ ~NumGT(currentPrice, Num(0))
          THEN [P0 EXCEPT !.error = "Invalid price data"]
        ELSE IF isBuy THEN buy(P0, tokenAddress, amount, currentPrice)
        ELSE sell(P0, tokenAddress, amount, currentPrice)

(***************************************************************************)
(* handlePriceUpdate, lines 248-272.                                       *)
(***************************************************************************)
\* price === price of JavaScript: NaN is not equal to itself.
StrictEq(x, y) == x = y /\ ~isNaN(x)

handlePriceUpdate_keepsPnl(P, address, price) ==
    IF \/ ~\E i \in DOMAIN P.tokens :
               toLowerCase(P.tokens[i].address) = toLowerCase(address)
       \/ StrictEq(P.tokens[CHOOSE i \in DOMAIN P.tokens :
                       toLowerCase(P.tokens[i].address) = toLowerCase(address)
                   ].currentPrice, price)
      THEN P
      ELSE [P EXCEPT !.tokens = [i \in DOMAIN P.tokens |->
               LET t == P.tokens[i]
               IN  IF toLowerCase(t.address) = toLowerCase(address)
                     THEN [t EXCEPT !.currentPrice = price]
                     ELSE t]]

handlePriceUpdate(P, address, price) ==
    IF \/ ~\E i \in DOMAIN P.tokens :
               toLowerCase(P.tokens[i].address) = toLowerCase(address)
       \/ StrictEq(P.tokens[CHOOSE i \in DOMAIN P.tokens :
                       toLowerCase(P.tokens[i].address) = toLowerCase(address)
                   ].currentPrice, price)
      THEN P
      ELSE [P EXCEPT !.tokens = [i \in DOMAIN P.tokens |->
               LET t == P.tokens[i]
                   pnlData == calculatePositionPnL(t.trades, price)
               IN  IF toLowerCase(t.address) = toLowerCase(address)
                     THEN [t EXCEPT !.currentPrice = price, !.pnl = pnlData.totalPnL]
                     ELSE t]]

(***************************************************************************)
(* Specification SpecPage: the page and the snapshot cache it reads.       *)
(***************************************************************************)
\* The $ amount of the cards' buttons (trading-card.tsx lines 211-241) the
\* specifications draw, the priceUsd strings of the snapshots, and the
\* addresses typed into the input.
Amounts == {250}
PriceStrings == {<<"1", "0">>, <<"1", "2", ".", "5">>, <<"0">>, <<"x">>}
PagePrices == {<<"1", "0">>, <<"1", "2", ".", "5">>}
PageAddrs == RawAddrs \cup {<<"c">>}
\* The responses to addToken's fetch of address a: a failure, no pairs, and
\* a pair of the token whose price is a number or is not.
PageResponses(a) ==
    {[ok |-> FALSE, pairs |-> <<>>], [ok |-> TRUE, pairs |-> <<>>]} \cup
    {[ok |-> TRUE, pairs |-> <<PricedPair(a, s)>>] : s \in {<<"1", "0">>, <<"x">>}}

AllPageResponses == UNION {PageResponses(toLowerCase(a)) : a \in PageAddrs}

InitPage ==
    /\ now = StartTime
    /\ rateLimiter = NewRateLimiter
    /\ opLog = [t \in Times |-> 0]
    /\ callers = [c \in Callers |-> [pc |-> "idle", wakeAt |-> 0]]
    /\ subscribers = <<>>
    /\ tokenData = <<>>
    /\ lastUpdateTime = <<>>
    /\ requestQueue = <<>>
    /\ isProcessingQueue = FALSE
    /\ drains = [d \in DrainIds |-> Idle]
    /\ direct = Idle
    /\ directCalls = 0
    /\ lastTick = StartTime
    /\ nextId = 1
    /\ invokedLog = <<>>
    /\ returned = NoFn
    /\ ev = NoEv
    /\ page = [balance |-> Num(initialBalance), tokens |-> <<>>, trades |-> <<>>,
               error |-> "", isLoading |-> FALSE]

\* A click on Add Token with newAddress in the input; the button is
\* disabled while isLoading (lines 320-328).  When the checks pass,
\* fetchTokenData is called (line 110) and runs up to its await.
AddToken(newAddress, cap) ==
    /\ ~page.isLoading
    /\ direct.pc = "idle"
    /\ LET a == addToken(page, newAddress)
           f == fetchStart(rateLimiter,
                           [Idle EXCEPT !.task = SingleTask(a.normalizedAddress, "")],
                           now)
       IN  /\ page' = a.page
           /\ IF a.fetch
                THEN /\ directCalls < cap
                     /\ directCalls' = directCalls + 1
                     /\ rateLimiter' = f.rl
                     /\ direct' = f.p
                ELSE UNCHANGED <<directCalls, rateLimiter, direct>>
           /\ ev' = Ev("page")
    /\ UNCHANGED <<now, opLog, callers, subscribers, tokenData, lastUpdateTime,
                   requestQueue, isProcessingQueue, drains, lastTick, nextId,
                   invokedLog, returned>>

\* The response of addToken's fetch arrives: fetchTokenData handles it and
\* returns, and addToken goes on after its await.
AddTokenResumed(resp) ==
    /\ direct.pc = "fetching"
    /\ resp \in PageResponses(direct.task.addr)
    /\ LET r == fetchTokenData(direct.task.addr, resp, {}, subscribers, tokenData,
                               lastUpdateTime, now)
       IN  /\ tokenData' = r.tokenData
           /\ lastUpdateTime' = r.lastUpdateTime
           /\ page' = addTokenResumed(page, direct.task.addr, r.ret)
    /\ direct' = Idle
    /\ ev' = Ev("page")
    /\ UNCHANGED <<now, rateLimiter, opLog, callers, subscribers, requestQueue,
                   isProcessingQueue, drains, lastTick, nextId, invokedLog, returned,
                   directCalls>>

\* A click on a Buy or Sell button of the card of the i-th token.
HandleTrade(i, isBuy, amount, cap) ==
    /\ i \in DOMAIN page.tokens
    /\ page' = handleTrade(page, tokenData, page.tokens[i].address, isBuy, amount)
    /\ Len(page'.trades) <= cap
    /\ ev' = Ev("page")
    /\ UNCHANGED <<now, rateLimiter, opLog, callers, subscribers, tokenData,
                   lastUpdateTime, requestQueue, isProcessingQueue, drains, direct,
                   directCalls, lastTick, nextId, invokedLog, returned>>

\* The card of the i-th token reports the price of a snapshot it was given
\* (trading-card.tsx lines 68-79 and 81-113).
HandlePriceUpdate(i, priceUsd) ==
    /\ i \in DOMAIN page.tokens
    /\ page' = handlePriceUpdate(page, page.tokens[i].address, parseFloat(priceUsd))
    /\ ev' = Ev("page")
    /\ UNCHANGED <<now, rateLimiter, opLog, callers, subscribers, tokenData,
                   lastUpdateTime, requestQueue, isProcessingQueue, drains, direct,
                   directCalls, lastTick, nextId, invokedLog, returned>>

\* The service refreshes the snapshot of a tracked token (fetchBatch lines
\* 213-217 of the service).
SnapshotUpdate(i, priceUsd) ==
    /\ i \in DOMAIN page.tokens
    /\ tokenData' = Put(tokenData, page.tokens[i].address,
                        PricedPair(page.tokens[i].address, priceUsd))
    /\ lastUpdateTime' = Put(lastUpdateTime, page.tokens[i].address, now)
    /\ ev' = Ev("page")
    /\ UNCHANGED <<now, rateLimiter, opLog, callers, subscribers, requestQueue,
                   isProcessingQueue, drains, direct, directCalls, lastTick, nextId,
                   invokedLog, returned, page>>

\* The card's effect is cleaned up and its last subscriber leaves: the
\* service drops the snapshot (unsubscribe lines 273-281 of the service).
SnapshotEvict(i) ==
    /\ i \in DOMAIN page.tokens
    /\ page.tokens[i].address \in DOMAIN tokenData
    /\ tokenData' = Remove(tokenData, page.tokens[i].address)
    /\ lastUpdateTime' = Remove(lastUpdateTime, page.tokens[i].address)
    /\ ev' = Ev("page")
    /\ UNCHANGED <<now, rateLimiter, opLog, callers, subscribers, requestQueue,
                   isProcessingQueue, drains, direct, directCalls, lastTick, nextId,
                   invokedLog, returned, page>>

\* SpecPage: the token list.  Tokens are added under any spelling of three
\* addresses while time passes, so that a fetch may have to wait for the
\* limiter.
NextPage ==
    \/ \E a \in PageAddrs : AddToken(a, MaxAdds)
    \/ DirectWake
    \/ DirectIssue
    \/ \E resp \in AllPageResponses : AddTokenResumed(resp)
    \/ TimePasses(PageHorizon)

SpecPage == InitPage /\ [][NextPage]_vars

\* SpecCards: two tokens are added and traded at two prices.  Time stands
\* still, and addToken is called as often as the limiter grants a fetch
\* without waiting.
NextCards ==
    \/ \E a \in RawAddrs : AddToken(a, limit)
    \/ DirectIssue
    \/ \E resp \in AllPageResponses : AddTokenResumed(resp)
    \/ \E i \in 1..MAX_TOKENS, isBuy \in BOOLEAN, amount \in Amounts :
           HandleTrade(i, isBuy, amount, MaxPageTrades)
    \/ \E i \in 1..MAX_TOKENS, s \in PagePrices : HandlePriceUpdate(i, s)
    \/ \E i \in 1..MAX_TOKENS, s \in PagePrices : SnapshotUpdate(i, s)
    \/ \E i \in 1..MAX_TOKENS : SnapshotEvict(i)

SpecCards == InitPage /\ [][NextCards]_vars

\* SpecTrade: one token is added and traded until the balance is used up,
\* with snapshots whose price is valid, zero or not a number.  Time stands
\* still as in SpecCards.
NextTrade ==
    \/ AddToken(<<"A">>, limit)
    \/ DirectIssue
    \/ \E resp \in AllPageResponses : AddTokenResumed(resp)
    \/ \E isBuy \in BOOLEAN, amount \in Amounts : HandleTrade(1, isBuy, amount, MaxCardTrades)
    \/ \E s \in PriceStrings : HandlePriceUpdate(1, s)
    \/ \E s \in PriceStrings : SnapshotUpdate(1, s)
    \/ SnapshotEvict(1)

SpecTrade == InitPage /\ [][NextTrade]_vars

(***************************************************************************)
(* Specification SpecRL: the limiter alone, under NCallers concurrent      *)
(* callers that call waitForAvailability at arbitrary times.               *)
(***************************************************************************)
InitRL ==
    /\ now = StartTime
    /\ rateLimiter = NewRateLimiter
    /\ opLog = [t \in Times |-> 0]
    /\ callers = [c \in Callers |-> [pc |-> "idle", wakeAt |-> 0]]
    /\ InitService

\* One synchronous run of waitForAvailability by caller c.
RLRun(c) ==
    LET w == waitForAvailability(rateLimiter, now)
    IN  /\ rateLimiter' = w.rl
        /\ IF w.granted
             THEN /\ opLog' = [opLog EXCEPT ![now] = @ + 1]
                  /\ callers' = [callers EXCEPT ![c] = [pc |-> "idle", wakeAt |-> 0]]
             ELSE /\ opLog' = opLog
                  /\ callers' = [callers EXCEPT
                                   ![c] = [pc |-> "sleep", wakeAt |-> now + w.waitTime]]
        /\ UNCHANGED now
        /\ UNCHANGED svcVars

\* A caller enters waitForAvailability.
RLCall(c) ==
    /\ callers[c].pc = "idle"
    /\ RLRun(c)

\* The setTimeout of a waiting caller fires (not before its delay has
\* elapsed) and the call retries.
RLWake(c) ==
    /\ callers[c].pc = "sleep"
    /\ now >= callers[c].wakeAt
    /\ RLRun(c)

\* Time passes.
RLTime ==
    /\ now < MaxTime
    /\ now' = now + 1
    /\ UNCHANGED <<rateLimiter, opLog, callers>>
    /\ UNCHANGED svcVars

NextRL ==
    \/ \E c \in Callers : RLCall(c)
    \/ \E c \in Callers : RLWake(c)
    \/ RLTime

SpecRL == InitRL /\ [][NextRL]_vars

\* SpecRLLive: the limiter under the scheduling of the event loop.  Calls
\* are made at arbitrary times until StartTime + Horizon, a timer that was
\* set fires when its delay has elapsed, and the clock goes on for as long
\* as a timer is pending.  Each caller counts the sleeps of its current
\* call (up to MaxWaits).
InitRLLive ==
    /\ now = StartTime
    /\ rateLimiter = NewRateLimiter
    /\ opLog = [t \in Times |-> 0]
    /\ callers = [c \in Callers |-> [pc |-> "idle", wakeAt |-> 0, waits |-> 0]]
    /\ InitService

\* One synchronous run of waitForAvailability by caller c, which has slept
\* n times in this call: the grant, or the setTimeout before the retry.
RLLiveRun(c, n) ==
    LET w == waitForAvailability(rateLimiter, now)
    IN  /\ rateLimiter' = w.rl
        /\ callers' = [callers EXCEPT
                         ![c] = IF w.granted
                                  THEN [pc |-> "idle", wakeAt |-> 0, waits |-> n]
                                  ELSE [pc |-> "sleep", wakeAt |-> now + w.waitTime,
                                        waits |-> IF n < MaxWaits THEN n + 1 ELSE n]]
        /\ ev' = Ev(IF w.granted THEN "granted" ELSE "sleep")
        /\ UNCHANGED <<now, opLog, subscribers, tokenData, lastUpdateTime, requestQueue,
                       isProcessingQueue, drains, direct, directCalls, lastTick, nextId,
                       invokedLog, returned, page>>

\* A caller enters waitForAvailability.
RLLiveCall(c) ==
    /\ callers[c].pc = "idle"
    /\ now < StartTime + Horizon
    /\ RLLiveRun(c, 0)

\* The setTimeout of a waiting caller fires and the call is made again.
RLLiveWake(c) ==
    /\ callers[c].pc = "sleep"
    /\ now >= callers[c].wakeAt
    /\ RLLiveRun(c, callers[c].waits)

\* Time passes.
RLLiveTime ==
    /\ \/ now < StartTime + Horizon
       \/ \E c \in Callers : callers[c].pc = "sleep" /\ callers[c].wakeAt > now
    /\ now' = now + 1
    /\ ev' = Ev("time")
    /\ UNCHANGED <<rateLimiter, opLog, callers, subscribers, tokenData, lastUpdateTime,
                   requestQueue, isProcessingQueue, drains, direct, directCalls, lastTick,
                   nextId, invokedLog, returned, page>>

NextRLLive ==
    \/ \E c \in Callers : RLLiveCall(c)
    \/ \E c \in Callers : RLLiveWake(c)
    \/ RLLiveTime

SpecRLLive ==
    /\ InitRLLive
    /\ [][NextRLLive]_vars
    /\ \A c \in Callers : WF_vars(RLLiveWake(c))
    /\ WF_vars(RLLiveTime)

RECURSIVE SumLog(_, _, _)
SumLog(log, from, to) ==
    IF from > to THEN 0
    ELSE (IF from \in DOMAIN log THEN log[from] ELSE 0) + SumLog(log, from + 1, to)

\* C1: the operations recorded in any interval of length resetInterval
\* (from t to t + resetInterval) never number more than 2 x limit.
C1_AtMostTwiceLimitPerWindow ==
    \A t \in Times : SumLog(opLog, t, t + resetInterval) <= 2 * limit

\* Witness of C1: 2 x limit operations recorded in one window-length
\* interval, across a reset.
C1_Witness ==
    \E t \in Times :
        /\ SumLog(opLog, t, t + resetInterval - 1) = 2 * limit
        /\ rateLimiter.lastReset > t

\* C2 as stated: at most limit operations are recorded in any trailing
\* interval of length resetInterval.
C2_AtMostLimitPerTrailingWindow ==
    \A t \in Times : SumLog(opLog, t, t + resetInterval - 1) <= limit

\* C2 amended: at most limit operations are recorded in any one fixed
\* window, that is, since the last reset of the limiter.
C2_AtMostLimitPerFixedWindow ==
    /\ rateLimiter.requests <= limit
    /\ SumLog(opLog, rateLimiter.lastReset, now) = rateLimiter.requests

\* Witness of C2: a window is exhausted while a concurrent caller waits.
C2_Witness ==
    /\ rateLimiter.requests = limit
    /\ \E c \in Callers : callers[c].pc = "sleep"
    /\ \E c \in Callers : callers[c].pc = "idle"
    /\ rateLimiter.lastReset > StartTime

(***************************************************************************)
(* The request queue (SpecQueue).                                          *)
(***************************************************************************)
ActiveDrains == {d \in DrainIds : drains[d].pc # "idle"}
\* The drains that hold a task they have shifted but not yet invoked.
Holding == {d \in DrainIds : drains[d].pc \in {"limiterSleep", "ready"}}
Suspended == {d \in DrainIds : drains[d].pc \in {"limiterSleep", "taskSleep", "fetching"}}
TaskIds(q) == [i \in 1..Len(q) |-> q[i].id]
UpTo(n) == [i \in 1..n |-> i]

\* C3: the drain invokes the tasks in the order of their enqueueing: the
\* tasks invoked so far are the first ones enqueued, in that order, the
\* task the drain holds is the next one, and the queue holds the rest in
\* order.
C3_TasksInvokedInEnqueueOrder ==
    /\ invokedLog = UpTo(Len(invokedLog))
    /\ \A d \in Holding : drains[d].task.id = Len(invokedLog) + 1
    /\ TaskIds(requestQueue) =
           [i \in 1..Len(requestQueue) |-> nextId - 1 - Len(requestQueue) + i]

\* Witness of C3: two tasks have been invoked and a third one, enqueued
\* while the drain was active, waits behind a suspended drain.
C3_Witness ==
    /\ Len(invokedLog) >= 2
    /\ Len(requestQueue) >= 1
    /\ Suspended # {}

\* C4: at most one processQueue loop is active, so at most one queued task
\* is executing, and isProcessingQueue says whether one is.
C4_AtMostOneDrain ==
    /\ Cardinality(ActiveDrains) <= 1
    /\ isProcessingQueue <=> ActiveDrains # {}

\* Witness of C4: queueRequest has been called while the drain is inside a
\* task that is itself suspended in the rate limiter.
C4_Witness ==
    /\ \E d \in DrainIds : drains[d].pc = "taskSleep"
    /\ Len(requestQueue) >= 1

\* C5: when a task has rejected, the drain is where a task that completed
\* leaves it: it holds the next task enqueued, if there is one, and
\* otherwise it has ended and cleared isProcessingQueue; no task is lost.
C5_ThrowDoesNotHaltQueue ==
    (ev.op = "taskResponse" /\ ev.threw) =>
        IF nextId - 1 > Len(invokedLog)
          THEN /\ isProcessingQueue
               /\ \E d \in Holding : drains[d].task.id = Len(invokedLog) + 1
          ELSE /\ ~isProcessingQueue
               /\ ActiveDrains = {}
               /\ requestQueue = <<>>

\* Witness of C5: a task has rejected and the drain holds the task that was
\* enqueued behind it.
C5_Witness ==
    /\ ev.op = "taskResponse"
    /\ ev.threw
    /\ \E d \in Holding : drains[d].task.id = Len(invokedLog) + 1

\* C6: a network call is in flight only for a fetch function whose own call
\* of waitForAvailability has returned after recording an operation.
C6_AcquireBeforeNetworkCall ==
    /\ \A d \in DrainIds : drains[d].pc = "fetching" => drains[d].own >= 1
    /\ direct.pc = "fetching" => direct.own >= 1

\* Witness of C6: a queued fetch and a fetch made outside the queue are in
\* flight together.
C6_Witness ==
    /\ direct.pc = "fetching"
    /\ direct.own = 1
    /\ \E d \in DrainIds : drains[d].pc = "fetching" /\ drains[d].own = 1

(***************************************************************************)
(* The subscription registry and the cache (Spec).                         *)
(***************************************************************************)
KeySet(m) == {m[i].addr : i \in 1..Len(m)}
Handlers(m, k) == SeqToSet(Get(m, k))
\* The tasks that exist: queued, or held or run by a drain.
LiveTasks(q, ds) == SeqToSet(q) \cup {ds[d].task : d \in {e \in DrainIds : ds[e].pc # "idle"}}
SubscribeTask(k, h, id) ==
    [id |-> id, kind |-> "single", addr |-> k, cb |-> h, addresses |-> <<>>]

\* What C7 says of a step subscribe(t, h).
SubscribeEffect(t, h) ==
    LET k == toLowerCase(t)
    IN  /\ Handlers(subscribers', k) = Handlers(subscribers, k) \cup {h}
        /\ KeySet(subscribers') = KeySet(subscribers) \cup {k}
        /\ \A k2 \in KeySet(subscribers) \ {k} :
               Get(subscribers', k2) = Get(subscribers, k2)
        /\ nextId' = nextId + 1
        /\ LiveTasks(requestQueue', drains') =
               LiveTasks(requestQueue, drains) \cup {SubscribeTask(k, h, nextId)}
        /\ returned' = [addr |-> k, cb |-> h]
        /\ tokenData' = tokenData
        /\ lastUpdateTime' = lastUpdateTime

\* The function subscribe returned acts, in the current state, as
\* unsubscribe does for any spelling of the address it was given.
ReturnedActsAsUnsubscribe ==
    returned # NoFn =>
        \A t \in RawAddrs :
            toLowerCase(t) = returned.addr =>
                unsubscribe(CurR, returned.addr, returned.cb) =
                    unsubscribe(CurR, t, returned.cb)

\* C7: subscribe(t, h) adds h to the subscriber set of the lower-cased t,
\* creating the set if absent, enqueues exactly one single-token fetch task
\* for it, and returns a function that acts as unsubscribe(t, h).
C7_SubscribeContract ==
    /\ [][\A t \in RawAddrs, h \in Handles :
              Subscribe(t, h, MaxRegTasks) => SubscribeEffect(t, h)]_vars
    /\ []ReturnedActsAsUnsubscribe

\* Witness of C7: a subscribe call has added a second callback to a token's
\* set, and its fetch task waits in the queue.
C7_Witness ==
    /\ ev.op = "subscribe"
    /\ Len(Get(subscribers, returned.addr)) = 2
    /\ Len(requestQueue) >= 1
    /\ requestQueue[Len(requestQueue)] =
           SubscribeTask(returned.addr, returned.cb, nextId - 1)

\* What C8 says of a step unsubscribe(t, h).
UnsubscribeEffect(R0, R1, t, h) ==
    LET k == toLowerCase(t)
        rest == Handlers(R0.subscribers, k) \ {h}
        emptied == Has(R0.subscribers, k) /\ rest = {}
    IN  /\ Handlers(R1.subscribers, k) = rest
        /\ emptied =>
               /\ ~Has(R1.subscribers, k)
               /\ k \notin DOMAIN R1.tokenData
               /\ k \notin DOMAIN R1.lastUpdateTime
        /\ ~emptied =>
               /\ Has(R1.subscribers, k) <=> Has(R0.subscribers, k)
               /\ R1.tokenData = R0.tokenData
               /\ R1.lastUpdateTime = R0.lastUpdateTime
        /\ \A k2 \in KeySet(R0.subscribers) \ {k} :
               Has(R1.subscribers, k2)
                   /\ Get(R1.subscribers, k2) = Get(R0.subscribers, k2)
        /\ DOMAIN R1.tokenData \ {k} = DOMAIN R0.tokenData \ {k}
        /\ DOMAIN R1.lastUpdateTime \ {k} = DOMAIN R0.lastUpdateTime \ {k}
        /\ \A x \in DOMAIN R0.tokenData \ {k} : R1.tokenData[x] = R0.tokenData[x]
        /\ \A x \in DOMAIN R0.lastUpdateTime \ {k} :
               R1.lastUpdateTime[x] = R0.lastUpdateTime[x]

\* What C8 says of a tick: the batches it enqueues hold subscribed tokens only.
TickEffect ==
    \A task \in LiveTasks(requestQueue', drains') :
        task.id >= nextId =>
            /\ task.kind = "batch"
            /\ SeqToSet(task.addresses) \subseteq KeySet(subscribers)

\* C8: unsubscribe(t, h) removes h from t's set; it deletes t's entry,
\* snapshot and timestamp exactly when that empties the set, and otherwise
\* leaves the cache and the other callbacks alone (with no entry for t it
\* does nothing); a later tick enqueues no batch for an evicted token.
\* The first conjunct states it of the registry unsubscribe(t, h) computes
\* from any reachable state, the second of every step that changes the
\* registry.
C8_UnsubscribeContract ==
    /\ [](\A t \in RawAddrs, h \in Handles :
              UnsubscribeEffect(CurR, unsubscribe(CurR, t, h), t, h))
    /\ [][/\ (ev'.op = "unsubscribe" /\ subscribers' # subscribers) =>
                 \A t \in RawAddrs, h \in Handles :
                     Unsubscribe(t, h) => UnsubscribeEffect(CurR, CurR', t, h)
          /\ (ev'.op = "tick" /\ IntervalTick(MaxRegTasks)) => TickEffect]_vars

\* Witness of C8: an unsubscribe has evicted a token and its cached
\* snapshot while another token stays subscribed.
C8_Witness ==
    /\ ev.op = "unsubscribe"
    /\ ev.evicted
    /\ Len(subscribers) >= 1

\* C9: right after a subscribe(t, h) directly followed by unsubscribe(t, h)
\* that leaves t without subscribers, t has no cached snapshot and no
\* last-update timestamp.
C9_NoResidualCacheEntry ==
    (/\ ev.op \in {"unsubscribe", "callReturned"}
     /\ ev.afterSub
     /\ ~Has(subscribers, returned.addr)) =>
        /\ returned.addr \notin DOMAIN tokenData
        /\ returned.addr \notin DOMAIN lastUpdateTime

\* Witness of C9: such an unsubscribe has removed a snapshot that was cached
\* for t before the subscribe.
C9_Witness ==
    /\ ev.op = "unsubscribe"
    /\ ev.afterSub
    /\ ev.evicted
    /\ ~Has(subscribers, returned.addr)

\* The addresses a task fetches.
TaskKeys(task) ==
    IF task.kind = "single" THEN {toLowerCase(task.addr)} ELSE SeqToSet(task.addresses)

\* C10 as stated: the response of a queued fetch writes a snapshot or a
\* timestamp for a token of the task only if the token has a subscriber.
C10_LateSnapshotOnlyIfSubscribed ==
    [][\A d \in DrainIds, resp \in Responses, each \in SUBSET MayThrow, last \in BOOLEAN :
          TaskResponse(d, resp, each, last) =>
              \A k \in TaskKeys(drains[d].task) :
                  (\/ (k \in DOMAIN tokenData' /\ k \notin DOMAIN tokenData)
                   \/ (k \in DOMAIN lastUpdateTime' /\ k \notin DOMAIN lastUpdateTime))
                      => Has(subscribers, k)]_vars

\* C11: a callback is invoked only while it is registered for the address
\* it is invoked for: after unsubscribe(t, h) has returned, no later step
\* of the service invokes h for t, also when a fetch for t that was queued
\* or in flight at that time completes.
C11_UnsubscribedNeverInvoked ==
    \A i \in 1..Len(ev.calls) :
        ev.calls[i].cb \in Handlers(subscribers, ev.calls[i].addr)

\* Two identifiers that differ only in letter case.
CaseVariants(c) == IF c \in {"A", "a"} THEN {"A", "a"} ELSE {c}
DiffersOnlyInCase(s1, s2) ==
    /\ s1 # s2
    /\ Len(s1) = Len(s2)
    /\ \A i \in 1..Len(s1) : s2[i] \in CaseVariants(s1[i])

\* C12: in every reachable state, for two identifiers that differ only in
\* letter case, subscribe, unsubscribe, the response handling of
\* fetchTokenData and getTokenData have the same result, and no entry of
\* the three maps is kept under a second spelling of a key.
C12_CaseInsensitiveIdentifiers ==
    /\ \A t1 \in RawAddrs, t2 \in RawAddrs :
          DiffersOnlyInCase(t1, t2) =>
              /\ \A h \in Handles :
                     /\ subscribe(subscribers, t1, h) = subscribe(subscribers, t2, h)
                     /\ unsubscribe(CurR, t1, h) = unsubscribe(CurR, t2, h)
              /\ \A resp \in Responses, each \in SUBSET MayThrow :
                     fetchTokenData(t1, resp, each, subscribers, tokenData,
                                    lastUpdateTime, now)
                       = fetchTokenData(t2, resp, each, subscribers, tokenData,
                                        lastUpdateTime, now)
              /\ getTokenData(tokenData, t1) = getTokenData(tokenData, t2)
    /\ \A k1 \in KeySet(subscribers) \cup DOMAIN tokenData \cup DOMAIN lastUpdateTime :
          \A k2 \in KeySet(subscribers) \cup DOMAIN tokenData \cup DOMAIN lastUpdateTime :
              ~DiffersOnlyInCase(k1, k2)

\* Witness of C12: the entry of "a" has two callbacks and a cached
\* snapshot, so the operations compared have something to address.
C12_Witness ==
    /\ Len(Get(subscribers, <<"a">>)) = 2
    /\ getTokenData(tokenData, <<"A">>) # NoPair
    /\ <<"a">> \in DOMAIN lastUpdateTime

\* The snapshots a response resolves for the task that fetched it: the
\* single-token fetch resolves its first pair by liquidity for the address
\* of the task, the batch fetch one pair for each base token it holds.
Resolved(task, resp) ==
    IF ~resp.ok \/ Len(resp.pairs) = 0 THEN {}
    ELSE IF task.kind = "single"
      THEN {[addr |-> toLowerCase(task.addr), pair |-> sortedFirst(resp.pairs)]}
      ELSE SeqToSet(pairsByAddress(resp.pairs, <<>>))

\* C13: when the response of a queued fetch resolves a snapshot for a
\* token, the token's cache entry is that snapshot, its timestamp is the
\* current time, every callback registered for the token has been invoked
\* with the snapshot, and no callback that is registered only for other
\* tokens has been invoked.
C13_RecordSnapshotNotifiesAll ==
    [][ev'.op = "taskResponse" =>
         \A d \in DrainIds, resp \in Responses, each \in SUBSET MayThrow, last \in BOOLEAN :
            TaskResponse(d, resp, each, last) =>
               LET res == Resolved(drains[d].task, resp)
                   calls == ev'.calls
               IN  /\ \A e \in res :
                         /\ e.addr \in DOMAIN tokenData'
                         /\ tokenData'[e.addr] = e.pair
                         /\ e.addr \in DOMAIN lastUpdateTime'
                         /\ lastUpdateTime'[e.addr] = now
                         /\ \A h \in Handlers(subscribers, e.addr) :
                                \E i \in 1..Len(calls) :
                                    /\ calls[i].addr = e.addr
                                    /\ calls[i].cb = h
                                    /\ calls[i].pair = e.pair
                   /\ \A i \in 1..Len(calls) :
                         /\ \E e \in res : e.addr = calls[i].addr
                         /\ \/ calls[i].cb \in Handlers(subscribers, calls[i].addr)
                            \/ \A k \in KeySet(subscribers) :
                                   calls[i].cb \notin Handlers(subscribers, k)]_vars

(***************************************************************************)
(* The scheduler and the responses, under SpecSched.                       *)
(***************************************************************************)
\* The task of a given id among the tasks queued or held by a drain.
TaskOfId(q, ds, id) == CHOOSE task \in LiveTasks(q, ds) : task.id = id
RECURSIVE Flatten(_)
Flatten(ss) == IF ss = <<>> THEN <<>> ELSE Head(ss) \o Flatten(Tail(ss))

\* The subscribed tokens, in registration order, whose snapshot is at least
\* UPDATE_INTERVAL old at time t; a token never fetched is stale.
StaleKeys(subs, lut, t) ==
    SelectSeq(Keys(subs),
              LAMBDA k : k \in DOMAIN lut => t - lut[k] >= UPDATE_INTERVAL)

\* The tasks a step has enqueued, in the order of their enqueueing.
Enqueued ==
    [i \in 1..(nextId' - nextId) |-> TaskOfId(requestQueue', drains', nextId + i - 1)]

\* C14: a tick enqueues one batch task per chunk; every chunk holds between
\* 1 and BATCH_SIZE tokens, and the chunks, put end to end, are the
\* subscribed stale tokens in registration order, each exactly once.
C14_TickPartitionsStaleTokens ==
    [][(ev'.op = "tick" /\ IntervalTick(MaxSchedTasks)) =>
          /\ \A i \in DOMAIN Enqueued :
                /\ \E task \in LiveTasks(requestQueue', drains') : task.id = nextId + i - 1
                /\ Enqueued[i].kind = "batch"
                /\ Len(Enqueued[i].addresses) \in 1..BATCH_SIZE
          /\ Flatten([i \in DOMAIN Enqueued |-> Enqueued[i].addresses])
                = StaleKeys(subscribers, lastUpdateTime, now)
          /\ \A i, j \in DOMAIN Keys(subscribers) :
                Keys(subscribers)[i] = Keys(subscribers)[j] => i = j]_vars

\* Witness of C14: a tick has found one token fresh and more stale tokens
\* than one batch holds, and has enqueued two batch tasks for them.
C14_Witness ==
    /\ ev.op = "tick"
    /\ Len(StaleKeys(subscribers, lastUpdateTime, now)) = BATCH_SIZE + 1
    /\ Len(StaleKeys(subscribers, lastUpdateTime, now)) < Len(subscribers)
    /\ \A id \in {nextId - 2, nextId - 1} :
          \E task \in LiveTasks(requestQueue, drains) :
              task.id = id /\ task.kind = "batch"

\* Entry k of a map is the same before and after the step.
SameEntry(f, g, k) == (k \in DOMAIN f <=> k \in DOMAIN g) /\ (k \in DOMAIN f => f[k] = g[k])

PairsOfBase(pairs, k) == {pairs[i] : i \in {j \in 1..Len(pairs) : toLowerCase(pairs[j].address) = k}}
\* p is a pair of the largest liquidity among the pairs ps.
HighestLiquidity(p, ps) ==
    p \in ps /\ \A q \in ps : liquidityUsd(q) <= liquidityUsd(p)

\* C16 as stated: when a response has pairs for a base token, the snapshot
\* cached for the token is one of those pairs, of the largest liquidity.usd
\* among them (a missing liquidity counts as 0): in a batch fetch for every
\* base token of the response, in a single-token fetch for the token fetched.
C16_HighestLiquidityCached ==
    [][ev'.op = "taskResponse" =>
          \A d \in DrainIds, resp \in SchedResponses :
              (TaskResponse(d, resp, {}, FALSE) /\ resp.ok) =>
                  \A k \in (IF drains[d].task.kind = "batch"
                              THEN PresentKeys(resp.pairs)
                              ELSE PresentKeys(resp.pairs) \cap TaskKeys(drains[d].task)) :
                      /\ k \in DOMAIN tokenData'
                      /\ HighestLiquidity(tokenData'[k], PairsOfBase(resp.pairs, k))]_vars

\* The network calls in flight: those of the tasks the drains run, and the
\* one of a fetchTokenData call made outside the queue.
InFlight == Cardinality({d \in DrainIds : drains[d].pc = "fetching"})
                + (IF direct.pc = "fetching" THEN 1 ELSE 0)

\* C17 as stated: a network call is made only by a task the drain runs (a
\* tick's batch task or a subscribe-time task), never outside the drain,
\* and at most one is in flight at any time.
C17_FetchOnlyInsideDrain ==
    /\ direct.pc # "fetching"
    /\ InFlight <= 1

\* After the response of the task drain d was running, the drain has gone
\* on: it holds the task that was first in the queue, or, the queue being
\* empty, it has ended; the task is gone and nothing was enqueued.
QueueContinues(d) ==
    /\ nextId' = nextId
    /\ \A task \in LiveTasks(requestQueue', drains') : task.id # drains[d].task.id
    /\ IF requestQueue = <<>>
         THEN requestQueue' = <<>> /\ ~isProcessingQueue' /\ drains'[d] = Idle
         ELSE /\ requestQueue' = Tail(requestQueue)
              /\ isProcessingQueue'
              /\ drains'[d].task = Head(requestQueue)
              /\ drains'[d].pc \in {"ready", "limiterSleep"}

\* C18: a task whose network call rejects or answers with a status that is
\* not OK changes no snapshot, no timestamp and no subscriber set and
\* invokes no callback; the task settles without being enqueued again and
\* the drain goes on with the next task; the tokens that were stale are
\* stale as before, and a tick enqueues every stale subscribed token.
C18_FailedFetchChangesNothing ==
    [][/\ ev'.op = "taskResponse" =>
              \A d \in DrainIds, resp \in SchedResponses :
                  (TaskResponse(d, resp, {}, FALSE) /\ ~resp.ok) =>
                      /\ tokenData' = tokenData
                      /\ lastUpdateTime' = lastUpdateTime
                      /\ subscribers' = subscribers
                      /\ ev'.calls = <<>>
                      /\ ~ev'.threw
                      /\ QueueContinues(d)
                      /\ \A t \in now..(StartTime + SchedHorizon) :
                            StaleKeys(subscribers', lastUpdateTime', t)
                                = StaleKeys(subscribers, lastUpdateTime, t)
       /\ (ev'.op = "tick" /\ IntervalTick(MaxSchedTasks)) =>
              \A k \in SeqToSet(StaleKeys(subscribers, lastUpdateTime, now)) :
                  \E i \in DOMAIN Enqueued :
                      k \in SeqToSet(Enqueued[i].addresses)]_vars

\* Witness of C18: the fetch of a task has failed while another task was
\* waiting in the queue; the drain holds that task, and no token has a
\* snapshot or a timestamp.
C18_Witness ==
    /\ ev.op = "taskResponse"
    /\ ev.failed
    /\ ev.calls = <<>>
    /\ tokenData = <<>>
    /\ lastUpdateTime = <<>>
    /\ \E d \in Holding : drains[d].task.id = Len(invokedLog) + 1

\* C19: an OK response without pairs is not an error: fetchTokenData
\* returns null, so that the subscribe-time task does not call its
\* callback, fetchBatch does nothing, no snapshot and no timestamp is
\* written, no callback is invoked, and the task settles normally.
C19_EmptyResponseIsNotAnError ==
    [][ev'.op = "taskResponse" =>
          \A d \in DrainIds, resp \in SchedResponses :
              (TaskResponse(d, resp, {}, FALSE) /\ resp.ok /\ resp.pairs = <<>>) =>
                  /\ drains[d].task.kind = "single" =>
                        fetchTokenData(drains[d].task.addr, resp, {}, subscribers,
                                       tokenData, lastUpdateTime, now).ret = NoPair
                  /\ tokenData' = tokenData
                  /\ lastUpdateTime' = lastUpdateTime
                  /\ subscribers' = subscribers
                  /\ ev'.calls = <<>>
                  /\ ~ev'.threw
                  /\ ~ev'.failed
                  /\ QueueContinues(d)]_vars

\* Witness of C19: the network call of a task has answered OK and the
\* response has written nothing, which only a response without pairs does.
C19_Witness ==
    /\ ev.op = "taskResponse"
    /\ ~ev.failed
    /\ ev.calls = <<>>
    /\ tokenData = <<>>
    /\ lastUpdateTime = <<>>
    /\ Len(invokedLog) >= 1

(***************************************************************************)
(* The position accounting, under SpecPnL.                                 *)
(***************************************************************************)
\* The average-cost replay of the first i trades from the zero state: a buy
\* adds its notional to totalCost and its amount to holdings; a sell of a at
\* price p adds a*p - a*(totalCost/holdings) to realizedPnL, scales
\* totalCost by (holdings - a)/holdings and takes a from holdings.
RECURSIVE PositionAfter(_, _)
PositionAfter(trades, i) ==
    IF i = 0 THEN [holdings |-> Num(0), totalCost |-> Num(0), realizedPnL |-> Num(0)]
    ELSE LET pos == PositionAfter(trades, i - 1)
             a == trades[i].amount
             p == trades[i].price
         IN  IF trades[i].type = "buy"
               THEN [holdings |-> NumAdd(pos.holdings, a),
                     totalCost |-> NumAdd(pos.totalCost, trades[i].value),
                     realizedPnL |-> pos.realizedPnL]
               ELSE [holdings |-> NumSub(pos.holdings, a),
                     totalCost |-> NumMul(pos.totalCost,
                                          NumDiv(NumSub(pos.holdings, a), pos.holdings)),
                     realizedPnL |->
                         NumAdd(pos.realizedPnL,
                                NumSub(NumMul(a, p),
                                       NumMul(a, NumDiv(pos.totalCost, pos.holdings))))]

\* No sell exceeds the holdings at its point of the list.
Admissible(trades) ==
    \A i \in DOMAIN trades :
        trades[i].type = "sell" =>
            ~NumGT(trades[i].amount, PositionAfter(trades, i - 1).holdings)

\* C20: for a trade list in which no sell exceeds the holdings, and any
\* current price, calculatePositionPnL returns the holdings and the realized
\* PnL of the average-cost replay, unrealizedPnL = holdings * price -
\* totalCost when holdings > 0 and 0 otherwise, their sum as totalPnL, and
\* totalCost / holdings as averageCost when holdings > 0.
C20_AverageCostReplay ==
    (page.pnl # <<>> /\ Admissible(page.trades)) =>
        LET pos == PositionAfter(page.trades, Len(page.trades))
            unrealized == IF NumGT(pos.holdings, Num(0))
                            THEN NumSub(NumMul(pos.holdings, page.currentPrice),
                                        pos.totalCost)
                            ELSE Num(0)
        IN  /\ page.pnl[1].totalTokens = pos.holdings
            /\ page.pnl[1].realizedPnL = pos.realizedPnL
            /\ page.pnl[1].unrealizedPnL = unrealized
            /\ page.pnl[1].totalPnL = NumAdd(pos.realizedPnL, unrealized)
            /\ NumGT(pos.holdings, Num(0)) =>
                   page.pnl[1].averageCost = NumDiv(pos.totalCost, pos.holdings)

\* Witness of C20: 10 tokens bought for $100, then 5 sold at $12: holdings
\* 5, average cost 10, realized PnL 10, and at the price 12 an unrealized
\* PnL of 5 * 12 - 50 = 10.
C20_Witness ==
    /\ page.trades = <<Trade("buy", 10, 10, 100), Trade("sell", 5, 12, 60)>>
    /\ page.currentPrice = Num(12)
    /\ page.pnl # <<>>
    /\ page.pnl[1].totalTokens = Num(5)
    /\ page.pnl[1].averageCost = Num(10)
    /\ page.pnl[1].realizedPnL = Num(10)
    /\ page.pnl[1].unrealizedPnL = Num(10)
    /\ page.pnl[1].totalPnL = Num(20)

SellAtZeroHoldings(trades) ==
    \E i \in DOMAIN trades :
        /\ trades[i].type = "sell"
        /\ forEachTrade(SubSeq(trades, 1, i - 1),
                        [totalCost |-> Num(0), totalTokens |-> Num(0),
                         realizedPnL |-> Num(0)]).totalTokens = Num(0)

\* C26: a call of calculatePositionPnL whose replay reaches a sell while the
\* holdings are 0 fails with an error: it throws and returns no result.
C26_SellAtZeroHoldingsFails ==
    (ev.op = "calculate" /\ SellAtZeroHoldings(page.trades)) =>
        (ev.threw /\ page.pnl = <<>>)

(***************************************************************************)
(* The permits of a queued fetch, under SpecQueue.                         *)
(***************************************************************************)
\* C29: when the task a drain has dequeued makes its network call, the
\* limiter has recorded exactly one operation for it since the drain
\* dequeued it.
C29_OnePermitPerQueuedFetch ==
    \A d \in DrainIds : drains[d].pc = "fetching" => drains[d].permits = 1

(***************************************************************************)
(* The progress of the queue, under SpecQueueLive.                         *)
(***************************************************************************)
\* C30: whenever the queue holds a task, a drain is active and the flag
\* isProcessingQueue is set, and every task that was enqueued is eventually
\* invoked.
C30_EveryTaskEventuallyInvoked ==
    /\ [](Len(requestQueue) > 0 => (isProcessingQueue /\ ActiveDrains # {}))
    /\ \A id \in 1..MaxTasks :
           (nextId > id) ~> (id \in SeqToSet(invokedLog))

\* Witness of C30: every task the specification has room for was enqueued
\* and invoked, the last one after its drain had to wait for the limiter,
\* and the drain has ended.
C30_Witness ==
    /\ nextId > MaxTasks
    /\ Len(invokedLog) = nextId - 1
    /\ requestQueue = <<>>
    /\ ~isProcessingQueue
    /\ rateLimiter.lastReset > StartTime

(***************************************************************************)
(* The trades of the page, under SpecTrade and SpecPage.                   *)
(***************************************************************************)
\* The price the cache holds for the i-th token; NaN when it holds none.
CachedPrice(i) ==
    IF page.tokens[i].address \in DOMAIN tokenData
      THEN parseFloat(tokenData[page.tokens[i].address].priceUsd)
      ELSE NaN

\* A request to trade $ amount of the i-th token fails a precondition.
FailsPrecondition(i, isBuy, amount) ==
    \/ page.tokens[i].address \notin DOMAIN tokenData
    \/ isNaN(CachedPrice(i))
    \/ ~NumGT(CachedPrice(i), Num(0))
    \/ isBuy /\ NumGT(Num(amount), page.balance)
    \/ ~isBuy /\ NumGT(NumDiv(Num(amount), CachedPrice(i)), page.tokens[i].holdings)

\* The messages handleTrade reports when it rejects a request.
TradeErrors ==
    {"Token data not available", "Invalid price data", "Insufficient balance",
     "Insufficient tokens"}

\* C22: a trade request that fails a precondition (no snapshot cached, a
\* price that is not a positive number, a buy for more than the balance, a
\* sell of more tokens than the position holds) changes neither the
\* balance nor any position nor the trade log, and reports an error: in
\* every reachable state that is what handleTrade does with such a
\* request, and every step that reports one of its errors leaves the
\* balance, the positions and the log as they were.
C22_RejectedTradeChangesNothing ==
    /\ [](\A i \in DOMAIN page.tokens, isBuy \in BOOLEAN, amount \in Amounts :
              FailsPrecondition(i, isBuy, amount) =>
                  LET P == handleTrade(page, tokenData, page.tokens[i].address,
                                       isBuy, amount)
                  IN  /\ P.balance = page.balance
                      /\ P.tokens = page.tokens
                      /\ P.trades = page.trades
                      /\ P.error \in TradeErrors)
    /\ [][(page'.error # page.error /\ page'.error \in TradeErrors) =>
              /\ page'.balance = page.balance
              /\ page'.tokens = page.tokens
              /\ page'.trades = page.trades
              /\ \E isBuy \in BOOLEAN, amount \in Amounts :
                     /\ FailsPrecondition(1, isBuy, amount)
                     /\ HandleTrade(1, isBuy, amount, MaxCardTrades)]_vars

\* Witness of C22: four buys of $250 have used up the balance and a fifth
\* one was rejected.
C22_Witness ==
    /\ page.error = "Insufficient balance"
    /\ page.balance = Num(0)
    /\ Len(page.trades) = 4
    /\ Len(page.tokens[1].trades) = 4

\* x >= 0, for a number that is neither NaN nor infinite.
NonNegative(x) == x.d > 0 /\ x.n >= 0

\* C23: the holdings of every position are a number >= 0, after any
\* sequence of addToken, buys, sells and price updates.
C23_HoldingsNeverNegative ==
    \A i \in DOMAIN page.tokens : NonNegative(page.tokens[i].holdings)

\* Witness of C23: a position was bought, sold in part at a higher price
\* and then sold out: its holdings are back at 0.
C23_Witness ==
    /\ Len(page.tokens) = 1
    /\ Len(page.tokens[1].trades) = 4
    /\ page.tokens[1].trades[2].type = "sell"
    /\ page.tokens[1].trades[4].type = "sell"
    /\ page.tokens[1].trades[2].amount # page.tokens[1].trades[1].amount
    /\ page.tokens[1].holdings = Num(0)

RECURSIVE Notional(_, _)
\* The sum of the notional values of the trades of one type in a log.
Notional(log, type) ==
    IF log = <<>> THEN Num(0)
    ELSE NumAdd(IF Head(log).type = type THEN Head(log).value ELSE Num(0),
                Notional(Tail(log), type))

\* C24: the balance is the initial balance minus the notional of the buys
\* recorded plus the notional of the sells recorded, and it is never
\* negative.
C24_BalanceConservation ==
    /\ page.balance = NumAdd(NumSub(Num(initialBalance), Notional(page.trades, "buy")),
                             Notional(page.trades, "sell"))
    /\ NonNegative(page.balance)

\* Witness of C24: three buys and a sell of $250 each leave $500.
C24_Witness ==
    /\ Len(page.trades) = 4
    /\ Notional(page.trades, "buy") = Num(750)
    /\ Notional(page.trades, "sell") = Num(250)
    /\ page.balance = Num(500)

IsPrefix(s, t) == Len(s) <= Len(t) /\ SubSeq(t, 1, Len(s)) = s
Reverse(s) == [i \in 1..Len(s) |-> s[Len(s) + 1 - i]]

\* C25: the trade list of a position only grows at its end: in every step
\* each tracked token stays tracked at its place and its list before the
\* step is a prefix of its list after it, so that no stored trade changes;
\* and the list is in the order of submission, which is the order of the
\* trade log (newest first) reversed.
C25_TradeListAppendOnly ==
    /\ [](Len(page.tokens) = 1 => page.tokens[1].trades = Reverse(page.trades))
    /\ [][\A i \in DOMAIN page.tokens :
              /\ i \in DOMAIN page'.tokens
              /\ page'.tokens[i].address = page.tokens[i].address
              /\ IsPrefix(page.tokens[i].trades, page'.tokens[i].trades)
              /\ Len(page'.tokens[i].trades) <= Len(page.tokens[i].trades) + 1]_vars

\* Witness of C25: a list of a buy, a sell with its realized PnL and a buy
\* at another price.
C25_Witness ==
    /\ Len(page.tokens) = 1
    /\ Len(page.tokens[1].trades) = 3
    /\ page.tokens[1].trades[1].type = "buy"
    /\ page.tokens[1].trades[2].type = "sell"
    /\ page.tokens[1].trades[2].pnl # <<>>
    /\ page.tokens[1].trades[3].type = "buy"
    /\ page.tokens[1].trades[3].price # page.tokens[1].trades[1].price

(***************************************************************************)
(* The tracked tokens, under SpecPage and SpecCards.                        *)
(***************************************************************************)
\* newAddress names a token that is tracked already.
AlreadyTracked(newAddress) ==
    \E i \in DOMAIN page.tokens :
        toLowerCase(page.tokens[i].address) = toLowerCase(newAddress)

\* C27: at most MAX_TOKENS tokens are tracked and no two of them have the
\* same lower-cased address; an addToken that finds the page full or the
\* address tracked reports an error without calling fetchTokenData and
\* without touching the tokens; and a token is appended only when the
\* fetch of an addToken has resolved.
C27_TrackedTokensBounded ==
    /\ [](/\ Len(page.tokens) <= MAX_TOKENS
          /\ \A i, j \in DOMAIN page.tokens :
                 toLowerCase(page.tokens[i].address) = toLowerCase(page.tokens[j].address)
                     => i = j)
    /\ [][/\ \A a \in PageAddrs :
                (AddToken(a, MaxAdds) /\ (Len(page.tokens) >= MAX_TOKENS \/ AlreadyTracked(a))) =>
                    /\ UNCHANGED <<direct, directCalls, rateLimiter, tokenData>>
                    /\ page'.tokens = page.tokens
                    /\ page'.error # ""
                    /\ ~page'.isLoading
          /\ Len(page'.tokens) # Len(page.tokens) =>
                /\ direct.pc = "fetching"
                /\ direct'.pc = "idle"
                /\ Len(page'.tokens) = Len(page.tokens) + 1
                /\ SubSeq(page'.tokens, 1, Len(page.tokens)) = page.tokens
                /\ page'.tokens[Len(page'.tokens)].address = direct.task.addr]_vars

\* Witness of C27: MAX_TOKENS tokens are tracked and a further addToken was
\* rejected without a fetch.
C27_Witness ==
    /\ Len(page.tokens) = MAX_TOKENS
    /\ page.error = "Maximum 6 tokens allowed"
    /\ direct.pc = "idle"
    /\ directCalls = MAX_TOKENS

\* C28: for every tracked token the stored holdings, averageCost and pnl
\* are what calculatePositionPnL returns for its trades and its stored
\* currentPrice.
C28_StoredPositionMatchesReplay ==
    \A i \in DOMAIN page.tokens :
        LET t == page.tokens[i]
            pnlData == calculatePositionPnL(t.trades, t.currentPrice)
        IN  /\ t.holdings = pnlData.totalTokens
            /\ t.averageCost = pnlData.averageCost
            /\ t.pnl = pnlData.totalPnL

\* Witness of C28: two tokens are held; the first was bought at 10 and is
\* now priced at 12.5, which makes its PnL 25 * 12.5 - 250.
C28_Witness ==
    /\ Len(page.tokens) = 2
    /\ page.tokens[1].holdings = Num(25)
    /\ page.tokens[1].averageCost = Num(10)
    /\ page.tokens[1].currentPrice = Norm(25, 2)
    /\ page.tokens[1].pnl = Norm(125, 2)
    /\ Len(page.tokens[2].trades) = 1


(***************************************************************************)
(* C31: waitForAvailability only delays.                                   *)
(***************************************************************************)

\* C31: a call returns only in a run that records its operation within the
\* limit of the window, also the run after a sleep (the condition is
\* evaluated again); and, under the event loop's scheduling, every call of
\* every caller that sleeps eventually returns.
C31_EveryCallEventuallyReturns ==
    /\ [][ev'.op = "granted" /\ rateLimiter' # rateLimiter
            => /\ rateLimiter'.requests \in 1..limit
               /\ \/ /\ now - rateLimiter.lastReset >= resetInterval
                     /\ rateLimiter' = [requests |-> 1, lastReset |-> now]
                  \/ /\ now - rateLimiter.lastReset < resetInterval
                     /\ rateLimiter.requests < limit
                     /\ rateLimiter' = [rateLimiter EXCEPT !.requests = @ + 1]]_vars
    /\ \A c \in Callers : (callers[c].pc = "sleep") ~> (callers[c].pc = "idle")

\* Witness of C31: a call has returned after sleeping twice, its first
\* retry having found the new window exhausted by another caller.
C31_Witness ==
    \E c \in Callers :
        /\ callers[c].pc = "idle"
        /\ callers[c].waits >= 2
        /\ ev.op = "granted"


(***************************************************************************)
(* C32: the average cost across a sell, under SpecPnL.                     *)
(***************************************************************************)
\* The local variables of calculatePositionPnL after its loop over trades.
LoopTotals(trades) ==
    forEachTrade(trades, [totalCost |-> Num(0), totalTokens |-> Num(0),
                          realizedPnL |-> Num(0)])

\* The list ends with a sell of less than (partial) or of all of (full) the
\* holdings the trades before it have left.
EndsWithSell(trades) ==
    /\ trades # <<>>
    /\ trades[Len(trades)].type = "sell"
PartialSell(trades) ==
    /\ EndsWithSell(trades)
    /\ NumGT(PositionAfter(trades, Len(trades) - 1).holdings, trades[Len(trades)].amount)
FullSell(trades) ==
    /\ EndsWithSell(trades)
    /\ PositionAfter(trades, Len(trades) - 1).holdings = trades[Len(trades)].amount

OwnPnl(trades, i) ==
    NumSub(PositionAfter(trades, i).realizedPnL, PositionAfter(trades, i - 1).realizedPnL)

\* C33: every sell trade of a position carries as pnl the realized PnL of
\* the average-cost replay of the position's trades up to and including it,
\* which is the sum over all its sells so far, and as pnlPercent that value
\* divided by the trade's notional value, times 100; the trade log holds the
\* same records.
C33_SellPnlIsCumulative ==
    /\ \A k \in DOMAIN page.tokens :
          LET trades == page.tokens[k].trades
          IN  \A i \in DOMAIN trades :
                  trades[i].type = "sell" =>
                      LET cumulative == PositionAfter(trades, i).realizedPnL
                      IN  /\ trades[i].pnl = <<cumulative>>
                          /\ trades[i].pnlPercent =
                                 <<NumMul(NumDiv(cumulative, trades[i].value), Num(100))>>
    /\ \A j \in DOMAIN page.trades :
          \E k \in DOMAIN page.tokens :
              \E i \in DOMAIN page.tokens[k].trades :
                  page.tokens[k].trades[i] = page.trades[j]

\* Witness of C33: 50 tokens bought at $10, then two sells of $250 at
\* $12.5; each realizes $50 by itself, and the second carries the pnl 100
\* and the pnlPercent 100 / 250 * 100 = 40.
C33_Witness ==
    \E k \in DOMAIN page.tokens :
        LET trades == page.tokens[k].trades
        IN  /\ Len(trades) = 4
            /\ trades[3].type = "sell"
            /\ trades[4].type = "sell"
            /\ OwnPnl(trades, 4) = Num(50)
            /\ trades[4].pnl = <<Num(100)>>
            /\ trades[4].pnlPercent = <<Num(40)>>


(***************************************************************************)
(* C34: what a batch fetch writes, under SpecSched.                        *)
(***************************************************************************)
\* C34 as stated: the response of a batch fetch creates or changes a
\* snapshot or a last-update timestamp only for addresses of the chunk the
\* task requested.
C34_BatchWritesOnlyItsChunk ==
    [][ev'.op = "taskResponse" =>
          \A d \in DrainIds, resp \in SchedResponses :
              (TaskResponse(d, resp, {}, FALSE) /\ drains[d].task.kind = "batch") =>
                  \A k \in DOMAIN tokenData' \cup DOMAIN lastUpdateTime' :
                      (~SameEntry(tokenData, tokenData', k)
                          \/ ~SameEntry(lastUpdateTime, lastUpdateTime', k))
                        => k \in SeqToSet(drains[d].task.addresses)]_vars

====
